---- MODULE Spec2Model ----
(***************************************************************************)
(* A model of openfisca_core.periods: the Unit enumeration, Instant and    *)
(* its calendar arithmetic (Instant.offset, Instant.period), and the       *)
(* period() parser, instant() and key_period_size of periods/helpers.py.   *)
(*                                                                         *)
(* Python values are records carrying a tag: a str is                      *)
(* [tag |-> "str", chars |-> <<"d","a","y">>] (a sequence of characters,   *)
(* so that lower(), split() and strptime() are computed, not assumed), an  *)
(* int is [tag |-> "int", val |-> n], a Unit member is                     *)
(* [tag |-> "Unit", key |-> ..., weight |-> ...], an Instant is            *)
(* [tag |-> "Instant", year, month, day] and a Period is                   *)
(* [tag |-> "Period", unit, start, size].                                  *)
(*                                                                         *)
(* The exceptions of the code are AssertionError and ValueError; the       *)
(* variable err records which check raised, under the names the            *)
(* specification gives them: InvalidUnitError (the 'Invalid unit' asserts),*)
(* InvalidSizeError (the 'Invalid size' assert), InvalidOffsetError (the   *)
(* 'Invalid offset' assert) and InvalidPeriodError (raise_error).          *)
(***************************************************************************)
EXTENDS Integers, Sequences, FiniteSets, TLC

VARIABLES
    inst,   \* the Instant at hand: the receiver of the next method call
    call,   \* the last call made: its name, receiver and arguments
    ret,    \* what the last call returned (when it raised: None, or what
            \* the error says)
    err,    \* the error the last call raised, "none" when it returned
    calls,  \* how many calls have been made
    origin, \* the Instant the first call was made on
    before, \* the call made before the last one, and what it returned,
            \* of the calls on instants, periods and units
    cache,  \* DATE_BY_INSTANT_CACHE: the entries [key, value] of the dict
    computed, \* how many times datetime.date was called, for each Instant
    pcs,    \* where each caller of a date conversion stands in it
    heap,   \* the Entity and GroupEntity objects built, in the order built
    invoked \* the calls the last call made of the variable lookups

vars ==
    <<inst, call, ret, err, calls, origin, before, cache, computed, pcs, heap,
      invoked>>

\* the state of the date conversions
dateVars == <<cache, computed, pcs>>

\* no date conversion was made, and no caller is in one
NoConversions == cache = {} /\ computed = <<>> /\ pcs = <<>>

\* the state of the entities
entityVars == <<heap, invoked>>

\* no entity was built
NoEntities == heap = <<>> /\ invoked = <<>>

-----------------------------------------------------------------------------
(* Bounds of the exploration.                                              *)

\* Each base year b contributes the years b .. b + YearSpan.
YearSpan == 1

\* The day amount that carries over two month ends (January 31 + 29).
MaxDays == 29

\* The month amount that carries over a year end from any month.
MaxMonths == 13

\* The number of calls made in a row.
MaxCalls == 2

\* The distance between the base years 1900 and 2000.
Century == 100

\* The largest size Instant.period is called with.
MaxSize == 3

\* The largest month and the largest day written in the texts parsed.
MaxTextMonth == 12

MaxTextDay == 31

\* 1900: a century that is not leap; 2000: a century that is; 2020: leap.
BaseYears == {1900, 2000, 2020}

Years == {b + k : b \in BaseYears, k \in 0..YearSpan}

-----------------------------------------------------------------------------
(* Python values.                                                          *)

None == [tag |-> "None"]

PyStr(cs) == [tag |-> "str", chars |-> cs]

PyInt(n) == [tag |-> "int", val |-> n]

UpperLetters ==
    <<"A","B","C","D","E","F","G","H","I","J","K","L","M",
      "N","O","P","Q","R","S","T","U","V","W","X","Y","Z">>

LowerLetters ==
    <<"a","b","c","d","e","f","g","h","i","j","k","l","m",
      "n","o","p","q","r","s","t","u","v","w","x","y","z">>

Symbols == {"-", "+", ":", "_", " ", "0", "1", "2", "3", "4", "5", "6", "7", "8", "9"}

Characters ==
    {UpperLetters[i] : i \in 1..26} \cup {LowerLetters[i] : i \in 1..26}
        \cup Symbols

Position(c, letters) == CHOOSE i \in 1..26 : letters[i] = c

\* the lower-case form of every character
LowerChar ==
    [c \in Characters |->
        IF \E i \in 1..26 : UpperLetters[i] = c
        THEN LowerLetters[Position(c, UpperLetters)]
        ELSE c]

\* the upper-case form of every character
UpperChar ==
    [c \in Characters |->
        IF \E i \in 1..26 : LowerLetters[i] = c
        THEN UpperLetters[Position(c, LowerLetters)]
        ELSE c]

\* str.lower()
lower(cs) == [i \in 1..Len(cs) |-> LowerChar[cs[i]]]

\* str.capitalize(): first character upper-cased, the rest lower-cased
capitalize(cs) ==
    [i \in 1..Len(cs) |-> IF i = 1 THEN UpperChar[cs[i]] ELSE LowerChar[cs[i]]]

-----------------------------------------------------------------------------
(* Unit (periods/unit.py).                                                 *)

Member(n, k, w) == [tag |-> "Unit", name |-> n, key |-> k, weight |-> w]

Day == Member(<<"D","a","y">>, <<"d","a","y">>, 100)

Month == Member(<<"M","o","n","t","h">>, <<"m","o","n","t","h">>, 200)

Year == Member(<<"Y","e","a","r">>, <<"y","e","a","r">>, 300)

Eternity ==
    Member(<<"E","t","e","r","n","i","t","y">>,
           <<"e","t","e","r","n","i","t","y">>, 400)

\* iteration order of the enumeration
Unit == <<Day, Month, Year, Eternity>>

\* Unit.__eq__
Unit_eq(self, value) ==
    IF value.tag = "str"
    THEN self.key = lower(value.chars)
    ELSE self = value

\* a == b as Python dispatches it: Unit.__eq__ when either side is a Unit
\* (a str on the left returns NotImplemented and the reflected call is made)
PyEq(a, b) ==
    IF a.tag = "Unit" THEN Unit_eq(a, b)
    ELSE IF b.tag = "Unit" THEN Unit_eq(b, a)
    ELSE a = b

\* cls._member_map_[name]: the member of that name; ok is FALSE where the
\* lookup raises KeyError
member_map(name) ==
    IF \E i \in 1..Len(Unit) : Unit[i].name = name
    THEN [ok |-> TRUE,
          member |-> Unit[CHOOSE i \in 1..Len(Unit) : Unit[i].name = name]]
    ELSE [ok |-> FALSE, member |-> None]

\* UnitMeta.__getitem__: Unit[name]
Unit_getitem(name) ==
    IF name.tag = "str" THEN member_map(capitalize(name.chars))
    ELSE IF name.tag = "Unit" THEN member_map(capitalize(name.key))
    ELSE [ok |-> FALSE, member |-> None]

\* Unit.__lt__, for a value that is a Unit or spells one
\* (Unit_lt_OrEqual also answers True for a value of the same weight)
Unit_lt_OrEqual(self, value) ==
    IF value.tag = "str"
    THEN self.weight <= member_map(capitalize(value.chars)).member.weight
    ELSE self.weight <= value.weight

Unit_lt(self, value) ==
    IF value.tag = "str"
    THEN self.weight < member_map(capitalize(value.chars)).member.weight
    ELSE self.weight < value.weight

\* Unit.__gt__, for a value that is a Unit or spells one
\* (Unit_gt_OrEqual also answers True for a value of the same weight)
Unit_gt_OrEqual(self, value) ==
    IF value.tag = "str"
    THEN ~ Unit_lt(self, member_map(capitalize(value.chars)).member)
    ELSE ~ Unit_lt(self, value)

Unit_gt(self, value) ==
    IF value.tag = "str"
    THEN Unit_lt(member_map(capitalize(value.chars)).member, self)
    ELSE Unit_lt(value, self)

\* Unit.keys()
keys == [i \in 1..Len(Unit) |-> PyStr(Unit[i].key)]

\* Unit.ethereal(): the keys of the members that are not Eternity
\* (ethereal_AllKeys keeps the key of Eternity)
ethereal_AllKeys == keys

ethereal == SelectSeq(keys, LAMBDA k : ~ PyEq(k, Eternity))

\* x in <tuple>
InTuple(x, t) == \E i \in 1..Len(t) : PyEq(t[i], x)

\* UnitMeta.__contains__: member in Unit
\* (Unit_contains_ExactCase looks the str up among the keys as it is)
Unit_contains_ExactCase(member) ==
    IF member.tag = "str"
    THEN \E i \in 1..Len(keys) : keys[i] = member
    ELSE \E i \in 1..Len(Unit) : Unit[i] = member

Unit_contains(member) ==
    IF member.tag = "str"
    THEN \E i \in 1..Len(keys) : keys[i] = PyStr(lower(member.chars))
    ELSE \E i \in 1..Len(Unit) : Unit[i] = member

-----------------------------------------------------------------------------
(* The calendar, as calendar.isleap and calendar.monthrange compute it.    *)

isleap(year) == year % 4 = 0 /\ (year % 100 # 0 \/ year % 400 = 0)

mdays == <<31, 28, 31, 30, 31, 30, 31, 31, 30, 31, 30, 31>>

\* calendar.monthrange(year, month)[1]
monthrange(year, month) ==
    mdays[month] + (IF month = 2 /\ isleap(year) THEN 1 ELSE 0)

Instant(y, m, d) == [tag |-> "Instant", year |-> y, month |-> m, day |-> d]

Period(u, s, n) == [tag |-> "Period", unit |-> u, start |-> s, size |-> n]

-----------------------------------------------------------------------------
(* Instant.offset (periods/instant_.py).                                   *)

\* BorrowDays adding the length of the month left, not of the month entered
RECURSIVE BorrowDays_SameMonth(_, _, _)
BorrowDays_SameMonth(year, month, day) ==
    IF day < 1
    THEN LET m1 == month - 1
             y2 == IF m1 = 0 THEN year - 1 ELSE year
             m2 == IF m1 = 0 THEN 12 ELSE m1
         IN  BorrowDays_SameMonth(y2, m2, day + monthrange(year, month))
    ELSE Instant(year, month, day)

\* while day < 1: borrow from the previous month
RECURSIVE BorrowDays(_, _, _)
BorrowDays(year, month, day) ==
    IF day < 1
    THEN LET m1 == month - 1
             y2 == IF m1 = 0 THEN year - 1 ELSE year
             m2 == IF m1 = 0 THEN 12 ELSE m1
         IN  BorrowDays(y2, m2, day + monthrange(y2, m2))
    ELSE Instant(year, month, day)

\* while day > month_last_day: carry into the next month
RECURSIVE CarryDays(_, _, _)
CarryDays(year, month, day) ==
    LET month_last_day == monthrange(year, month)
    IN  IF day > month_last_day
        THEN LET m1 == month + 1
                 y2 == IF m1 = 13 THEN year + 1 ELSE year
                 m2 == IF m1 = 13 THEN 1 ELSE m1
             IN  CarryDays(y2, m2, day - month_last_day)
        ELSE Instant(year, month, day)

\* while month < 1: year -= 1; month += 12
RECURSIVE BorrowMonths(_, _)
BorrowMonths(year, month) ==
    IF month < 1 THEN BorrowMonths(year - 1, month + 12) ELSE <<year, month>>

\* while month > 12: year += 1; month -= 12
RECURSIVE CarryMonths(_, _)
CarryMonths(year, month) ==
    IF month > 12 THEN CarryMonths(year + 1, month - 12) ELSE <<year, month>>

\* if day > month_last_day: day = month_last_day
\* (ClampDay_Off keeps the day as it is)
ClampDay_Off(year, month, day) == Instant(year, month, day)

ClampDay(year, month, day) ==
    LET month_last_day == monthrange(year, month)
    IN  Instant(year, month, IF day > month_last_day THEN month_last_day ELSE day)

\* OffsetDay carrying for every amount, the negative ones too
OffsetDay_CarryOnly(self, n) ==
    CarryDays(self.year, self.month, self.day + n)

OffsetDay(self, n) ==
    LET day == self.day + n
    IN  IF n < 0 THEN BorrowDays(self.year, self.month, day)
        ELSE IF n > 0 THEN CarryDays(self.year, self.month, day)
        ELSE Instant(self.year, self.month, day)

\* OffsetMonth without the clamp of the day
OffsetMonth_NoClamp(self, n) ==
    LET month == self.month + n
        ym == IF n < 0 THEN BorrowMonths(self.year, month)
              ELSE IF n > 0 THEN CarryMonths(self.year, month)
              ELSE <<self.year, month>>
    IN  Instant(ym[1], ym[2], self.day)

\* OffsetMonth clamping to the length of the month left
OffsetMonth_ClampBefore(self, n) ==
    LET month == self.month + n
        ym == IF n < 0 THEN BorrowMonths(self.year, month)
              ELSE IF n > 0 THEN CarryMonths(self.year, month)
              ELSE <<self.year, month>>
        month_last_day == monthrange(self.year, self.month)
    IN  Instant(ym[1], ym[2],
                IF self.day > month_last_day THEN month_last_day ELSE self.day)

OffsetMonth(self, n) ==
    LET month == self.month + n
        ym == IF n < 0 THEN BorrowMonths(self.year, month)
              ELSE IF n > 0 THEN CarryMonths(self.year, month)
              ELSE <<self.year, month>>
    IN  ClampDay(ym[1], ym[2], self.day)

\* OffsetYear without the clamp of February 29
OffsetYear_NoClamp(self, n) == Instant(self.year + n, self.month, self.day)

OffsetYear(self, n) == ClampDay(self.year + n, self.month, self.day)

FirstOf == PyStr(<<"f","i","r","s","t","-","o","f">>)

LastOf == PyStr(<<"l","a","s","t","-","o","f">>)

\* offset == 'first-of'
OffsetFirstOf(self, unit) ==
    IF PyEq(unit, Month) THEN Instant(self.year, self.month, 1)
    ELSE IF PyEq(unit, Year) THEN Instant(self.year, 1, 1)
    ELSE Instant(self.year, self.month, self.day)

\* OffsetLastOf with a February of 28 days in every year
OffsetLastOf_NoLeap(self, unit) ==
    IF PyEq(unit, Month)
    THEN Instant(self.year, self.month, mdays[self.month])
    ELSE IF PyEq(unit, Year) THEN Instant(self.year, 12, 31)
    ELSE Instant(self.year, self.month, self.day)

\* offset == 'last-of'
OffsetLastOf(self, unit) ==
    IF PyEq(unit, Month)
    THEN Instant(self.year, self.month, monthrange(self.year, self.month))
    ELSE IF PyEq(unit, Year) THEN Instant(self.year, 12, 31)
    ELSE Instant(self.year, self.month, self.day)

\* offset is an int
OffsetInt(self, n, unit) ==
    IF PyEq(unit, Day) THEN OffsetDay(self, n)
    ELSE IF PyEq(unit, Month) THEN OffsetMonth(self, n)
    ELSE IF PyEq(unit, Year) THEN OffsetYear(self, n)
    ELSE Instant(self.year, self.month, self.day)

\* the assert made against every key, Eternity's included
OffsetUnitOk_AnyKey(unit) == InTuple(unit, keys)

\* assert unit in Unit.ethereal()
OffsetUnitOk(unit) == InTuple(unit, ethereal)

\* The outcome of self.offset(offset, unit): the error raised and the
\* value returned
offset(self, amount, unit) ==
    IF ~ OffsetUnitOk(unit)
    THEN [err |-> "InvalidUnitError", value |-> None]
    ELSE IF PyEq(amount, FirstOf)
    THEN [err |-> "none", value |-> OffsetFirstOf(self, unit)]
    ELSE IF PyEq(amount, LastOf)
    THEN [err |-> "none", value |-> OffsetLastOf(self, unit)]
    ELSE IF amount.tag # "int"
    THEN [err |-> "InvalidOffsetError", value |-> None]
    ELSE [err |-> "none", value |-> OffsetInt(self, amount.val, unit)]

-----------------------------------------------------------------------------
(* The arguments the calls are made with.                                  *)

ValidDate(y, m, d) == m \in 1..12 /\ d \in 1..monthrange(y, m)

Dates ==
    {i \in [tag : {"Instant"}, year : Years, month : 1..12, day : 1..31] :
        ValidDate(i.year, i.month, i.day)}

Magnitudes == {0, 1, MaxDays, MaxMonths, Century}

IntAmounts == Magnitudes \cup {0 - k : k \in Magnitudes}

MiddleOf == PyStr(<<"m","i","d","d","l","e","-","o","f">>)

Amounts == {PyInt(n) : n \in IntAmounts} \cup {FirstOf, LastOf, MiddleOf}

UnitArgs ==
    {Day, Month, Year, Eternity,
     PyStr(<<"d","a","y">>), PyStr(<<"m","o","n","t","h">>),
     PyStr(<<"y","e","a","r">>), PyStr(<<"e","t","e","r","n","i","t","y">>),
     PyStr(<<"D","A","Y">>), PyStr(<<"w","e","e","k">>)}

NoCall == [op |-> "none", self |-> None, args |-> <<>>]

-----------------------------------------------------------------------------
(* Calls of Instant.offset.  A first call is made on the instant at hand   *)
(* with any arguments; the calls that follow it undo and redo it: the      *)
(* caller negates the amount and calls offset on the instant returned.     *)

InitOffset ==
    /\ inst \in Dates
    /\ call = NoCall
    /\ ret = None
    /\ err = "none"
    /\ calls = 0
    /\ origin = inst
    /\ before = [call |-> NoCall, ret |-> None]
    /\ NoConversions
    /\ NoEntities

CallOffset(amount, unit) ==
    LET out == offset(inst, amount, unit)
    IN  /\ out.err = "none" => out.value.year \in Years
        /\ call' = [op |-> "offset", self |-> inst, args |-> <<amount, unit>>]
        /\ ret' = out.value
        /\ err' = out.err
        /\ inst' = IF out.err = "none" THEN out.value ELSE inst
        /\ calls' = calls + 1
        /\ UNCHANGED origin
        /\ before' = [call |-> call, ret |-> ret]
        /\ UNCHANGED dateVars
        /\ UNCHANGED entityVars

Offset ==
    /\ calls = 0
    /\ \E amount \in Amounts, unit \in UnitArgs : CallOffset(amount, unit)

OffsetBack ==
    /\ calls \in 1..(MaxCalls - 1)
    /\ call.op = "offset"
    /\ err = "none"
    /\ call.args[1].tag = "int"
    /\ CallOffset(PyInt(0 - call.args[1].val), call.args[2])

NextOffset == Offset \/ OffsetBack

SpecOffset == InitOffset /\ [][NextOffset]_vars

-----------------------------------------------------------------------------
(* Instant.period (periods/instant_.py).                                   *)

\* the argument left out of a call
Omitted == [tag |-> "omitted"]

\* the size asserted to be >= 0
PeriodSizeOk_NonNegative(size) == size.tag = "int" /\ size.val >= 0

\* assert isinstance(size, int) and size >= 1
PeriodSizeOk(size) == size.tag = "int" /\ size.val >= 1

\* The outcome of self.period(unit, size), size being 1 when left out
period_of(self, unit, size_arg) ==
    LET size == IF size_arg = Omitted THEN PyInt(1) ELSE size_arg
    IN  IF ~ Unit_contains(unit)
        THEN [err |-> "InvalidUnitError", value |-> None]
        ELSE IF ~ PeriodSizeOk(size)
        THEN [err |-> "InvalidSizeError", value |-> None]
        ELSE [err |-> "none", value |-> Period(unit, self, size)]

-----------------------------------------------------------------------------
(* Text and numbers: int(), str.split() and datetime.strptime().           *)

DigitChars == <<"0", "1", "2", "3", "4", "5", "6", "7", "8", "9">>

DigitSet == {DigitChars[i] : i \in 1..10}

DigitValue == [c \in DigitSet |-> (CHOOSE i \in 1..10 : DigitChars[i] = c) - 1]

AllDigits(cs) == \A i \in 1..Len(cs) : cs[i] \in DigitSet

\* the number a sequence of digits writes
RECURSIVE Number(_)
Number(cs) ==
    IF Len(cs) = 0 THEN 0
    ELSE 10 * Number(SubSeq(cs, 1, Len(cs) - 1)) + DigitValue[cs[Len(cs)]]

\* str.strip() of spaces
RECURSIVE strip(_)
strip(cs) ==
    IF Len(cs) > 0 /\ cs[1] = " " THEN strip(Tail(cs))
    ELSE IF Len(cs) > 0 /\ cs[Len(cs)] = " "
    THEN strip(SubSeq(cs, 1, Len(cs) - 1))
    ELSE cs

\* int(text): spaces around, a sign, then digits, which single
\* underscores may separate; ok is FALSE where int() raises ValueError
int(cs) ==
    LET t == strip(cs)
        signed == Len(t) > 0 /\ t[1] \in {"+", "-"}
        body == IF signed THEN Tail(t) ELSE t
        digits == SelectSeq(body, LAMBDA c : c # "_")
        wellformed ==
            /\ Len(body) > 0
            /\ \A i \in 1..Len(body) : body[i] \in DigitSet \cup {"_"}
            /\ body[1] # "_"
            /\ body[Len(body)] # "_"
            /\ \A i \in 1..(Len(body) - 1) : ~ (body[i] = "_" /\ body[i + 1] = "_")
    IN  IF ~ wellformed THEN [ok |-> FALSE, val |-> 0]
        ELSE [ok |-> TRUE,
              val |-> IF signed /\ t[1] = "-" THEN 0 - Number(digits)
                      ELSE Number(digits)]

\* text.split(sep): the pieces between the separators
RECURSIVE split(_, _)
split(cs, sep) ==
    IF \E i \in 1..Len(cs) : cs[i] = sep
    THEN LET i == CHOOSE k \in 1..Len(cs) :
                      cs[k] = sep /\ \A j \in 1..(k - 1) : cs[j] # sep
         IN  <<SubSeq(cs, 1, i - 1)>> \o split(SubSeq(cs, i + 1, Len(cs)), sep)
    ELSE <<cs>>

NoMatch == [ok |-> FALSE, len |-> 0, val |-> 0]

\* %m without the months of two digits that start with 1
MatchMonth_NoTens(cs) ==
    IF Len(cs) >= 2 /\ cs[1] = "0" /\ cs[2] \in DigitSet \ {"0"}
    THEN [ok |-> TRUE, len |-> 2, val |-> DigitValue[cs[2]]]
    ELSE IF Len(cs) >= 1 /\ cs[1] \in DigitSet \ {"0"}
    THEN [ok |-> TRUE, len |-> 1, val |-> DigitValue[cs[1]]]
    ELSE NoMatch

\* %m at the head of cs: 1[0-2] | 0[1-9] | [1-9]
MatchMonth(cs) ==
    IF Len(cs) >= 2 /\ cs[1] = "1" /\ cs[2] \in {"0", "1", "2"}
    THEN [ok |-> TRUE, len |-> 2, val |-> 10 + DigitValue[cs[2]]]
    ELSE IF Len(cs) >= 2 /\ cs[1] = "0" /\ cs[2] \in DigitSet \ {"0"}
    THEN [ok |-> TRUE, len |-> 2, val |-> DigitValue[cs[2]]]
    ELSE IF Len(cs) >= 1 /\ cs[1] \in DigitSet \ {"0"}
    THEN [ok |-> TRUE, len |-> 1, val |-> DigitValue[cs[1]]]
    ELSE NoMatch

\* %d at the head of cs: 3[0-1] | [1-2]\d | 0[1-9] | [1-9] | ' '[1-9]
MatchDay(cs) ==
    IF Len(cs) >= 2 /\ cs[1] = "3" /\ cs[2] \in {"0", "1"}
    THEN [ok |-> TRUE, len |-> 2, val |-> 30 + DigitValue[cs[2]]]
    ELSE IF Len(cs) >= 2 /\ cs[1] \in {"1", "2"} /\ cs[2] \in DigitSet
    THEN [ok |-> TRUE, len |-> 2,
          val |-> 10 * DigitValue[cs[1]] + DigitValue[cs[2]]]
    ELSE IF Len(cs) >= 2 /\ cs[1] = "0" /\ cs[2] \in DigitSet \ {"0"}
    THEN [ok |-> TRUE, len |-> 2, val |-> DigitValue[cs[2]]]
    ELSE IF Len(cs) >= 1 /\ cs[1] \in DigitSet \ {"0"}
    THEN [ok |-> TRUE, len |-> 1, val |-> DigitValue[cs[1]]]
    ELSE IF Len(cs) >= 2 /\ cs[1] = " " /\ cs[2] \in DigitSet \ {"0"}
    THEN [ok |-> TRUE, len |-> 2, val |-> DigitValue[cs[2]]]
    ELSE NoMatch

NoDate == [ok |-> FALSE, year |-> 0, month |-> 0, day |-> 0]

\* the date strptime builds, ValueError when it is not a date
MakeDate(y, m, d) ==
    IF y >= 1 /\ m \in 1..12 /\ d \in 1..monthrange(y, m)
    THEN [ok |-> TRUE, year |-> y, month |-> m, day |-> d]
    ELSE NoDate

\* %Y at the head of cs: four digits
MatchYear(cs) == Len(cs) >= 4 /\ AllDigits(SubSeq(cs, 1, 4))

\* datetime.datetime.strptime(text, '%Y')
strptime_Y(cs) ==
    IF MatchYear(cs) /\ Len(cs) = 4
    THEN MakeDate(Number(SubSeq(cs, 1, 4)), 1, 1)
    ELSE NoDate

\* datetime.datetime.strptime(text, '%Y-%m')
strptime_Ym(cs) ==
    IF MatchYear(cs) /\ Len(cs) >= 5 /\ cs[5] = "-"
    THEN LET m == MatchMonth(SubSeq(cs, 6, Len(cs)))
         IN  IF m.ok /\ 5 + m.len = Len(cs)
             THEN MakeDate(Number(SubSeq(cs, 1, 4)), m.val, 1)
             ELSE NoDate
    ELSE NoDate

\* datetime.datetime.strptime(text, '%Y-%m-%d')
strptime_Ymd(cs) ==
    IF MatchYear(cs) /\ Len(cs) >= 5 /\ cs[5] = "-"
    THEN LET m == MatchMonth(SubSeq(cs, 6, Len(cs)))
             at == 5 + m.len + 1
         IN  IF m.ok /\ Len(cs) >= at /\ cs[at] = "-"
             THEN LET d == MatchDay(SubSeq(cs, at + 1, Len(cs)))
                  IN  IF d.ok /\ at + d.len = Len(cs)
                      THEN MakeDate(Number(SubSeq(cs, 1, 4)), m.val, d.val)
                      ELSE NoDate
             ELSE NoDate
    ELSE NoDate

-----------------------------------------------------------------------------
(* period() (periods/helpers.py).                                          *)

\* instant(datetime.date.min)
MinInstant == Instant(1, 1, 1)

Infinity == [tag |-> "float", val |-> "inf"]

\* parse_simple_period(value): a Period, or None
parse_simple_period(cs) ==
    LET y == strptime_Y(cs)
        ym == strptime_Ym(cs)
        ymd == strptime_Ymd(cs)
    IN  IF y.ok
        THEN Period(Year, Instant(y.year, y.month, 1), PyInt(1))
        ELSE IF ym.ok
        THEN Period(Month, Instant(ym.year, ym.month, 1), PyInt(1))
        ELSE IF ymd.ok
        THEN Period(Day, Instant(ymd.year, ymd.month, ymd.day), PyInt(1))
        ELSE None

InvalidPeriod == [err |-> "InvalidPeriodError", value |-> None]

\* the part of period(value) that follows the split at ':'
\* (parse_components_Reanchored starts the Period on the first day of unit)
parse_components_Reanchored(components) ==
    LET unit == PyStr(components[1])
        base_period == parse_simple_period(components[2])
        size == IF Len(components) = 2 THEN [ok |-> TRUE, val |-> 1]
                ELSE IF Len(components) = 3 THEN int(components[3])
                ELSE [ok |-> FALSE, val |-> 0]
    IN  IF ~ InTuple(unit, ethereal) THEN InvalidPeriod
        ELSE IF base_period = None THEN InvalidPeriod
        ELSE IF ~ size.ok THEN InvalidPeriod
        ELSE IF Unit_gt(base_period.unit, unit) THEN InvalidPeriod
        ELSE [err |-> "none",
              value |-> Period(unit, OffsetFirstOf(base_period.start, unit),
                               PyInt(size.val))]

parse_components(components) ==
    LET unit == PyStr(components[1])
        base_period == parse_simple_period(components[2])
        size == IF Len(components) = 2 THEN [ok |-> TRUE, val |-> 1]
                ELSE IF Len(components) = 3 THEN int(components[3])
                ELSE [ok |-> FALSE, val |-> 0]
    IN  IF ~ InTuple(unit, ethereal) THEN InvalidPeriod
        ELSE IF base_period = None THEN InvalidPeriod
        ELSE IF ~ size.ok THEN InvalidPeriod
        ELSE IF Unit_gt(base_period.unit, unit) THEN InvalidPeriod
        ELSE [err |-> "none",
              value |-> Period(unit, base_period.start, PyInt(size.val))]

\* a Period handed to period() as if it were its start instant
period_parsed_Rewrapped(value) ==
    [err |-> "none",
     value |-> Period(Day, IF value.tag = "Period" THEN value.start ELSE value,
                      PyInt(1))]

\* period(value), value being a Period or an Instant
period_parsed(value) ==
    IF value.tag = "Period" THEN [err |-> "none", value |-> value]
    ELSE [err |-> "none", value |-> Period(Day, value, PyInt(1))]

\* value == 'ETERNITY' or value == Unit.Eternity, where Unit.__eq__ answers
\* for a str on either side of ==
is_eternity_LiteralOnly(value) ==
    value = PyStr(<<"E","T","E","R","N","I","T","Y">>)

is_eternity(value) ==
    \/ PyEq(value, PyStr(<<"E","T","E","R","N","I","T","Y">>))
    \/ PyEq(value, Eternity)

\* period(value), value being neither a Period nor an Instant
period_raw(value) ==
    IF is_eternity(value)
    THEN [err |-> "none",
          value |-> Period(PyStr(<<"e","t","e","r","n","i","t","y">>),
                           MinInstant, Infinity)]
    ELSE IF value.tag = "int"
    THEN [err |-> "none",
          value |-> Period(Year, Instant(value.val, 1, 1), PyInt(1))]
    ELSE IF value.tag # "str" THEN InvalidPeriod
    ELSE IF parse_simple_period(value.chars) # None
    THEN [err |-> "none", value |-> parse_simple_period(value.chars)]
    ELSE IF ~ \E i \in 1..Len(value.chars) : value.chars[i] = ":"
    THEN InvalidPeriod
    ELSE parse_components(split(value.chars, ":"))

\* The outcome of period(value): the error raised and the value returned
period(value) ==
    IF value.tag \in {"Period", "Instant"} THEN period_parsed(value)
    ELSE period_raw(value)

-----------------------------------------------------------------------------
(* Calls of Instant.period and of period().  A first call is made with any *)
(* arguments; the calls that follow it hand the Period returned back to    *)
(* period().                                                               *)

\* the decimal digits of n >= 0
RECURSIVE DecimalText(_)
DecimalText(n) ==
    IF n < 10 THEN <<DigitChars[n + 1]>>
    ELSE DecimalText(n \div 10) \o <<DigitChars[(n % 10) + 1]>>

\* cs with zeros in front, up to the width
RECURSIVE ZeroPad(_, _)
ZeroPad(cs, width) == IF Len(cs) >= width THEN cs ELSE ZeroPad(<<"0">> \o cs, width)

\* a number as it is written in a date: padded to the width, or bare
Written(n, width, padded) ==
    IF padded THEN ZeroPad(DecimalText(n), width) ELSE DecimalText(n)

TextYears == {y \in Years : y >= 2020}

TextMonths == {1, 2, MaxTextMonth}

TextDays == {1, 29, MaxTextDay}

YearTexts == {ZeroPad(DecimalText(y), 4) : y \in TextYears}

MonthTexts ==
    {yt \o <<"-">> \o Written(m, 2, p) :
        yt \in YearTexts, m \in TextMonths, p \in BOOLEAN}

DayTexts ==
    {mt \o <<"-">> \o Written(d, 2, p) :
        mt \in MonthTexts, d \in TextDays, p \in BOOLEAN}

\* texts that are no date
BrokenTexts ==
    {<<>>, <<"2","0">>, <<"2","0","2","0","-">>, <<"2","0","2","0","-","0">>,
     <<" ","2","0","2","0">>, <<"2","0","2","0","-","1","-","0","3","1">>,
     <<"2","0","2","0","0">>, <<"y","e","a","r">>}

\* a day written with a space for its leading zero, which %d reads
SpacedTexts == {<<"2","0","2","0","-","0","2","-"," ","5">>}

SimpleTexts ==
    YearTexts \cup MonthTexts \cup DayTexts \cup BrokenTexts \cup SpacedTexts

UnitTexts ==
    {<<"d","a","y">>, <<"m","o","n","t","h">>, <<"y","e","a","r">>,
     <<"e","t","e","r","n","i","t","y">>, <<"Y","E","A","R">>, <<>>}

SizeTexts ==
    {<<"1">>, <<"3">>, <<"1","0">>, <<"0">>, <<"-","3">>, <<"x">>, <<>>,
     <<"3",":","1">>}

CompoundTexts ==
    {u \o <<":">> \o t : u \in UnitTexts, t \in SimpleTexts} \cup
    {u \o <<":">> \o t \o <<":">> \o n :
        u \in UnitTexts, t \in YearTexts \cup MonthTexts \cup BrokenTexts,
        n \in SizeTexts}

EternityTexts ==
    {<<"E","T","E","R","N","I","T","Y">>, <<"e","t","e","r","n","i","t","y">>}

\* the values handed to period(): ints, texts, Unit members and None
Values ==
    {PyInt(y) : y \in Years \cup {0, -1}} \cup
    {PyStr(t) : t \in SimpleTexts \cup CompoundTexts \cup EternityTexts} \cup
    {Eternity, Day, None}

PeriodUnitArgs ==
    UnitArgs \cup {PyStr(<<"M","o","n","t","h">>), PyStr(<<"Y","E","A","R">>),
                   PyStr(<<>>)}

SizeArgs ==
    {PyInt(n) : n \in -1..MaxSize} \cup {Omitted, None, PyStr(<<"2">>)}

PeriodDates == {i \in Dates : i.year >= 2020 /\ i.month = 2 /\ i.day >= 28}

InitPeriod ==
    /\ inst \in PeriodDates
    /\ call = NoCall
    /\ ret = None
    /\ err = "none"
    /\ calls = 0
    /\ origin = inst
    /\ before = [call |-> NoCall, ret |-> None]
    /\ NoConversions
    /\ NoEntities

\* inst.period(unit, size)
CallPeriod ==
    /\ calls = 0
    /\ \E unit \in PeriodUnitArgs, size \in SizeArgs :
        LET out == period_of(inst, unit, size)
        IN  /\ call' = [op |-> "Instant.period", self |-> inst,
                        args |-> <<unit, size>>]
            /\ ret' = out.value
            /\ err' = out.err
    /\ calls' = calls + 1
    /\ UNCHANGED <<inst, origin>>
    /\ before' = [call |-> call, ret |-> ret]
    /\ UNCHANGED dateVars
    /\ UNCHANGED entityVars

CallParse(value) ==
    LET out == period(value)
    IN  /\ call' = [op |-> "period", self |-> None, args |-> <<value>>]
        /\ ret' = out.value
        /\ err' = out.err
        /\ calls' = calls + 1
        /\ UNCHANGED <<inst, origin>>
        /\ before' = [call |-> call, ret |-> ret]
        /\ UNCHANGED dateVars
        /\ UNCHANGED entityVars

\* period(value)
ParseValue ==
    /\ calls = 0
    /\ \E value \in Values : CallParse(value)

\* period(inst)
ParseInstant ==
    /\ calls = 0
    /\ CallParse(inst)

\* period(p), p a Period that a call returned
ParseReturned ==
    /\ calls \in 1..(MaxCalls - 1)
    /\ ret.tag = "Period"
    /\ CallParse(ret)

NextPeriod == CallPeriod \/ ParseValue \/ ParseInstant \/ ParseReturned

SpecPeriod == InitPeriod /\ [][NextPeriod]_vars

-----------------------------------------------------------------------------
(* key_period_size (periods/helpers.py), and the calls made of it and of   *)
(* the operators of Unit: a < b, a > b, a == b, x in Unit and Unit[x].     *)

PyBool(b) == [tag |-> "bool", val |-> b]

\* format(value, ''), as an f-string writes an int or float("inf")
format(value) ==
    IF value.tag = "int"
    THEN IF value.val < 0 THEN <<"-">> \o DecimalText(0 - value.val)
         ELSE DecimalText(value.val)
    ELSE <<"i","n","f">>

\* key_period_size(period), prd being the period
\* (key_period_size_ExactName looks the str up under the name as it is)
key_period_size_ExactName(prd) ==
    LET unit == IF prd.unit.tag = "str"
                THEN member_map(prd.unit.chars)
                ELSE [ok |-> TRUE, member |-> prd.unit]
    IN  IF ~ unit.ok THEN [err |-> "InvalidUnitError", value |-> None]
        ELSE [err |-> "none",
              value |-> PyStr(format(PyInt(unit.member.weight)) \o <<"_">>
                                \o format(prd.size))]

key_period_size(prd) ==
    LET unit == IF prd.unit.tag = "str"
                THEN Unit_getitem(prd.unit)
                ELSE [ok |-> TRUE, member |-> prd.unit]
    IN  IF ~ unit.ok THEN [err |-> "InvalidUnitError", value |-> None]
        ELSE [err |-> "none",
              value |-> PyStr(format(PyInt(unit.member.weight)) \o <<"_">>
                                \o format(prd.size))]

\* the units and sizes of the Periods handed to key_period_size
KeyUnits ==
    {Day, Year, PyStr(<<"m","o","n","t","h">>), PyStr(<<"Y","e","a","r">>), PyStr(<<"E","T","E","R","N","I","T","Y">>)}

KeySizes == {1, 2, 3, 10, 12}

KeyPeriods ==
    {Period(u, Instant(2021, 9, 14), PyInt(n)) : u \in KeyUnits, n \in KeySizes}
    \cup {Period(PyStr(<<"e","t","e","r","n","i","t","y">>), MinInstant, Infinity)}

\* the values compared with a Unit
CompareArgs ==
    {Day, Month, Year, Eternity} \cup
    {PyStr(t) : t \in {<<"d","a","y">>, <<"D","A","Y">>, <<"M","o","n","t","h">>, <<"y","E","A","R">>, <<"e","t","e","r","n","i","t","y">>,
                       <<"E","T","E","R","N","I","T","Y">>, <<"w","e","e","k">>}}

\* the values looked up in Unit
LookupArgs ==
    {Day, Month, Year, Eternity} \cup
    {PyStr(t) : t \in {<<"d","a","y">>, <<"D","a","y">>, <<"D","A","Y">>, <<"d","A","Y">>, <<"m","o","n","t","h">>, <<"M","O","N","T","H">>, <<"y","e","a","r">>,
                       <<"Y","e","a","r">>, <<"e","t","e","r","n","i","t","y">>, <<"E","T","E","R","N","I","T","Y">>, <<"w","e","e","k">>, <<>>, <<"d","a","y","s">>,
                       <<" ","d","a","y">>, <<"d","a">>}}

InitUnit ==
    /\ inst = Instant(2021, 9, 14)
    /\ call = NoCall
    /\ ret = None
    /\ err = "none"
    /\ calls = 0
    /\ origin = inst
    /\ before = [call |-> NoCall, ret |-> None]
    /\ NoConversions
    /\ NoEntities

Called(op, self, args, out) ==
    /\ call' = [op |-> op, self |-> self, args |-> args]
    /\ ret' = out.value
    /\ err' = out.err
    /\ calls' = calls + 1
    /\ before' = [call |-> call, ret |-> ret]
    /\ UNCHANGED dateVars
    /\ UNCHANGED entityVars
    /\ UNCHANGED <<inst, origin>>

\* key_period_size(period), of one period after another
SortKey ==
    /\ calls < MaxCalls
    /\ call.op \in {"none", "key_period_size"}
    /\ \E prd \in KeyPeriods :
        Called("key_period_size", None, <<prd>>, key_period_size(prd))

\* (a < b, a > b, a == b)
Compare ==
    /\ calls = 0
    /\ \E a \in {Day, Month, Year, Eternity}, b \in CompareArgs :
        Called("compare", a, <<b>>,
               IF b.tag = "str" /\ ~ member_map(capitalize(b.chars)).ok
               THEN [err |-> "InvalidUnitError", value |-> None]
               ELSE [err |-> "none",
                     value |-> [tag |-> "tuple",
                                lt |-> Unit_lt(a, b),
                                gt |-> Unit_gt(a, b),
                                eq |-> Unit_eq(a, b)]])

\* x in Unit
Contains ==
    /\ calls = 0
    /\ \E x \in LookupArgs :
        Called("contains", None, <<x>>,
               [err |-> "none", value |-> PyBool(Unit_contains(x))])

\* Unit[x]
GetItem ==
    /\ calls = 0
    /\ \E x \in LookupArgs :
        Called("getitem", None, <<x>>,
               IF Unit_getitem(x).ok
               THEN [err |-> "none", value |-> Unit_getitem(x).member]
               ELSE [err |-> "InvalidUnitError", value |-> None])

NextUnit == SortKey \/ Compare \/ Contains \/ GetItem

SpecUnit == InitUnit /\ [][NextUnit]_vars

-----------------------------------------------------------------------------
(* instant() (periods/helpers.py) and str(Instant) (periods/instant_.py),  *)
(* and the calls made of them: an Instant is built from a value, then      *)
(* written.                                                                *)

PyDate(y, m, d) == [tag |-> "date", year |-> y, month |-> m, day |-> d]

PyTuple(items) == [tag |-> "tuple", items |-> items]

\* INSTANT_PATTERN.match(text): four digits, then at most twice a '-' and
\* two digits, as the texts 'YYYY', 'YYYY-MM' and 'YYYY-MM-DD' are written
INSTANT_PATTERN_match(cs) ==
    /\ Len(cs) \in {4, 7, 10}
    /\ \A i \in 1..Len(cs) :
        IF i \in {5, 8} THEN cs[i] = "-" ELSE cs[i] \in DigitSet

\* text.split(sep, maxsplit)
RECURSIVE splitmax(_, _, _)
splitmax(cs, sep, maxsplit) ==
    IF maxsplit > 0 /\ \E i \in 1..Len(cs) : cs[i] = sep
    THEN LET i == CHOOSE k \in 1..Len(cs) :
                      cs[k] = sep /\ \A j \in 1..(k - 1) : cs[j] # sep
         IN  <<SubSeq(cs, 1, i - 1)>>
                \o splitmax(SubSeq(cs, i + 1, Len(cs)), sep, maxsplit - 1)
    ELSE <<cs>>

\* the tail of instant(): a tuple of one, two or three items as an Instant
instant_of_tuple(items) ==
    IF Len(items) = 1 THEN Instant(items[1], 1, 1)
    ELSE IF Len(items) = 2 THEN Instant(items[1], items[2], 1)
    ELSE Instant(items[1], items[2], items[3])

\* instant(instant): the error raised and the value returned
instant(value) ==
    IF value = None THEN [err |-> "none", value |-> None]
    ELSE IF value.tag = "Instant" THEN [err |-> "none", value |-> value]
    ELSE IF value.tag = "str"
    THEN IF ~ INSTANT_PATTERN_match(value.chars)
         THEN [err |-> "ValueError", value |-> None]
         ELSE LET fragments == splitmax(value.chars, "-", 2)
              IN  IF \E i \in 1..Len(fragments) : ~ int(fragments[i]).ok
                  THEN [err |-> "ValueError", value |-> None]
                  ELSE [err |-> "none",
                        value |-> instant_of_tuple(
                            [i \in 1..Len(fragments) |->
                                int(fragments[i]).val])]
    ELSE IF value.tag = "date"
    THEN [err |-> "none",
          value |-> Instant(value.year, value.month, value.day)]
    ELSE IF value.tag = "int"
    THEN [err |-> "none", value |-> Instant(value.val, 1, 1)]
    ELSE IF value.tag = "Period" THEN [err |-> "none", value |-> value.start]
    ELSE IF value.tag = "tuple" /\ Len(value.items) \in 1..3
    THEN [err |-> "none", value |-> instant_of_tuple(value.items)]
    ELSE [err |-> "AssertionError", value |-> None]

\* Instant.date: datetime.date(*self), ValueError when it is no date
\* (Instant_date_Unchecked builds the date of any triple)
Instant_date_Unchecked(self) ==
    [err |-> "none", value |-> PyDate(self.year, self.month, self.day)]

Instant_date(self) ==
    LET d == MakeDate(self.year, self.month, self.day)
    IN  IF d.ok THEN [err |-> "none", value |-> PyDate(d.year, d.month, d.day)]
        ELSE [err |-> "InvalidDateError", value |-> None]

\* date.isoformat() without the zeros in front
isoformat_Unpadded(d) ==
    DecimalText(d.year) \o <<"-">> \o DecimalText(d.month) \o <<"-">>
        \o DecimalText(d.day)

\* date.isoformat(): '%04d-%02d-%02d'
isoformat(d) ==
    ZeroPad(DecimalText(d.year), 4) \o <<"-">> \o ZeroPad(DecimalText(d.month), 2)
        \o <<"-">> \o ZeroPad(DecimalText(d.day), 2)

\* Instant.__str__
Instant_str(self) ==
    IF Instant_date(self).err = "none"
    THEN [err |-> "none", value |-> PyStr(isoformat(Instant_date(self).value))]
    ELSE Instant_date(self)

\* the dates written: those of the calendar at hand, and dates of years of
\* fewer than four digits and of the last year
WrittenDates ==
    Dates \cup {Instant(1, 1, 1), Instant(999, 12, 31), Instant(9999, 12, 31)}

\* the texts 'YYYY-MM-DD' of the dates written, zero-padded
DateTexts ==
    {ZeroPad(DecimalText(i.year), 4) \o <<"-">>
        \o ZeroPad(DecimalText(i.month), 2) \o <<"-">>
        \o ZeroPad(DecimalText(i.day), 2) : i \in WrittenDates}

\* the values handed to instant()
InstantValues ==
    {PyStr(t) : t \in DateTexts} \cup
    {PyStr(t) : t \in {<<"2","0","2","1">>, <<"2","0","2","1","-","0","2">>, <<"2","0","2","1","-","0","2","-","3","0">>, <<"2","0","2","1","-","2","-","5">>,
                       <<"2","0","2","1","-","0","2","-","5">>, <<"2","1","-","0","2","-","0","5">>, <<"2","0","2","1","-","0","2","-","0","5","-","0","1">>, <<>>,
                       <<"2","0","2","1","/","0","2","/","0","5">>}} \cup
    {None, Instant(2021, 2, 30), PyDate(2020, 2, 29), PyInt(2021),
     Period(Month, Instant(2021, 2, 1), PyInt(3)),
     PyTuple(<<>>), PyTuple(<<2021>>), PyTuple(<<2021, 2>>),
     PyTuple(<<2021, 2, 5>>), PyTuple(<<2021, 2, 5, 1>>), Day}

InitInstant ==
    /\ inst = Instant(2021, 9, 14)
    /\ call = NoCall
    /\ ret = None
    /\ err = "none"
    /\ calls = 0
    /\ origin = inst
    /\ before = [call |-> NoCall, ret |-> None]
    /\ NoConversions
    /\ NoEntities

\* instant(value)
MakeInstant ==
    /\ calls = 0
    /\ \E value \in InstantValues :
        LET out == instant(value)
        IN  /\ call' = [op |-> "instant", self |-> None, args |-> <<value>>]
            /\ ret' = out.value
            /\ err' = out.err
            /\ inst' = IF out.err = "none" /\ out.value # None
                       THEN out.value ELSE inst
    /\ calls' = calls + 1
    /\ before' = [call |-> call, ret |-> ret]
    /\ UNCHANGED dateVars
    /\ UNCHANGED entityVars
    /\ UNCHANGED origin

\* str(i), i the Instant that instant() returned
StrOfInstant ==
    /\ calls \in 1..(MaxCalls - 1)
    /\ call.op = "instant"
    /\ err = "none"
    /\ ret # None
    /\ call' = [op |-> "str", self |-> inst, args |-> <<>>]
    /\ ret' = Instant_str(inst).value
    /\ err' = Instant_str(inst).err
    /\ calls' = calls + 1
    /\ before' = [call |-> call, ret |-> ret]
    /\ UNCHANGED dateVars
    /\ UNCHANGED entityVars
    /\ UNCHANGED <<inst, origin>>

NextInstant == MakeInstant \/ StrOfInstant

SpecInstant == InitInstant /\ [][NextInstant]_vars

-----------------------------------------------------------------------------
(* The conversions of an Instant to a date: the property Instant.date      *)
(* (periods/instant_.py) and instant_date (periods/helpers.py), which      *)
(* several callers may be in at once.  Instant.date wraps datetime.date in *)
(* a new lru_cache at every access and calls it; instant_date reads        *)
(* DATE_BY_INSTANT_CACHE, and on a miss calls datetime.date and stores     *)
(* what it returned, a caller being free to run between any two of these   *)
(* steps of another.                                                       *)

NumCallers == 2

Callers == 1..NumCallers

\* the Instants converted: two dates of the calendar, February 30, a
\* month 13 and a day 0
DateInstants ==
    {Instant(2021, 9, 13), Instant(2020, 2, 29), Instant(2021, 2, 30),
     Instant(2021, 13, 1), Instant(2021, 2, 0)}

Idle == [pc |-> "idle", instant |-> None, instant_date |-> None]

\* DATE_BY_INSTANT_CACHE.get(key)
cache_get(key) ==
    IF \E e \in cache : e.key = key
    THEN (CHOOSE e \in cache : e.key = key).value
    ELSE None

\* DATE_BY_INSTANT_CACHE[key] = value
cache_set(key, value) ==
    {e \in cache : e.key # key} \cup {[key |-> key, value |-> value]}

InitDates ==
    /\ inst = Instant(2021, 9, 13)
    /\ call = NoCall
    /\ ret = None
    /\ err = "none"
    /\ calls = 0
    /\ origin = inst
    /\ before = [call |-> NoCall, ret |-> None]
    /\ cache = {}
    /\ computed = [i \in DateInstants |-> 0]
    /\ pcs = [c \in Callers |-> Idle]
    /\ NoEntities

\* a conversion ends: its call, and what it returned or raised
Converted(op, self, args, out) ==
    /\ call' = [op |-> op, self |-> self, args |-> args]
    /\ ret' = out.value
    /\ err' = out.err
    /\ before' = [call |-> call, ret |-> ret]
    /\ UNCHANGED <<inst, origin>>
    /\ UNCHANGED entityVars

\* instant.date, of a caller that is in no conversion
DateProperty(c) ==
    /\ pcs[c].pc = "idle"
    /\ calls < MaxCalls
    /\ \E i \in DateInstants :
        /\ computed' = [computed EXCEPT ![i] = @ + 1]
        /\ Converted("Instant.date", i, <<>>, Instant_date(i))
    /\ calls' = calls + 1
    /\ UNCHANGED <<cache, pcs>>

\* instant_date(instant) up to DATE_BY_INSTANT_CACHE.get(instant);
\* instant_date(None) returns None
InstantDateGet(c) ==
    /\ pcs[c].pc = "idle"
    /\ calls < MaxCalls
    /\ \E i \in DateInstants \cup {None} :
        IF i = None
        THEN /\ Converted("instant_date", None, <<None>>,
                          [err |-> "none", value |-> None])
             /\ UNCHANGED pcs
        ELSE /\ pcs' = [pcs EXCEPT ![c] =
                            [pc |-> "got", instant |-> i,
                             instant_date |-> cache_get(i)]]
             /\ UNCHANGED <<inst, call, ret, err, origin, before>>
             /\ UNCHANGED entityVars
    /\ calls' = calls + 1
    /\ UNCHANGED <<cache, computed>>

\* instant_date is not None: return instant_date
InstantDateHit(c) ==
    /\ pcs[c].pc = "got"
    /\ pcs[c].instant_date # None
    /\ Converted("instant_date", None, <<pcs[c].instant>>,
                 [err |-> "none", value |-> pcs[c].instant_date])
    /\ pcs' = [pcs EXCEPT ![c] = Idle]
    /\ UNCHANGED <<calls, cache, computed>>

\* instant_date is None: datetime.date(*instant), which may raise
InstantDateCompute(c) ==
    /\ pcs[c].pc = "got"
    /\ pcs[c].instant_date = None
    /\ computed' = [computed EXCEPT ![pcs[c].instant] = @ + 1]
    /\ LET out == Instant_date(pcs[c].instant)
       IN  IF out.err = "none"
           THEN /\ pcs' = [pcs EXCEPT ![c] =
                            [pc |-> "computed", instant |-> pcs[c].instant,
                             instant_date |-> out.value]]
                /\ UNCHANGED <<inst, call, ret, err, origin, before>>
                /\ UNCHANGED entityVars
           ELSE /\ pcs' = [pcs EXCEPT ![c] = Idle]
                /\ Converted("instant_date", None, <<pcs[c].instant>>, out)
    /\ UNCHANGED <<calls, cache>>

\* DATE_BY_INSTANT_CACHE[instant] = instant_date, and return instant_date
InstantDateStore(c) ==
    /\ pcs[c].pc = "computed"
    /\ cache' = cache_set(pcs[c].instant, pcs[c].instant_date)
    /\ Converted("instant_date", None, <<pcs[c].instant>>,
                 [err |-> "none", value |-> pcs[c].instant_date])
    /\ pcs' = [pcs EXCEPT ![c] = Idle]
    /\ UNCHANGED <<calls, computed>>

NextDates ==
    \E c \in Callers :
        \/ DateProperty(c)
        \/ InstantDateGet(c)
        \/ InstantDateHit(c)
        \/ InstantDateCompute(c)
        \/ InstantDateStore(c)

SpecDates == InitDates /\ [][NextDates]_vars

-----------------------------------------------------------------------------
(* Entity, GroupEntity and their helpers (entities/entity.py,              *)
(* entities/group_entity.py, entities/helpers.py), and MethodDescriptor    *)
(* (commons/descriptors.py).  An object is a record of its dataclass       *)
(* fields and of dict, the attributes set on it besides; the objects live  *)
(* in heap and are told apart by their place in it, [tag |-> "ref", id].   *)

MaxObjects == 3

MaxEntityCalls == 3

Ref(n) == [tag |-> "ref", id |-> n]

PyList(items) == [tag |-> "list", items |-> items]

\* tax_benefit_system.get_variable, of the tax-benefit system named
Method(system) == [tag |-> "method", of |-> system]

\* a Variable and the entity it is declared for
Variable(name, entity) == [tag |-> "Variable", name |-> name, entity |-> entity]

\* str.upper()
upper(cs) == [i \in 1..Len(cs) |-> UpperChar[cs[i]]]

\* textwrap.dedent(text), of a text of one line: the spaces in front go
RECURSIVE dedent(_)
dedent(cs) == IF Len(cs) > 0 /\ cs[1] = " " THEN dedent(Tail(cs)) ELSE cs

\* instance.__dict__ with name set to value
dict_update(dict, name, value) ==
    {e \in dict : e.name # name} \cup {[name |-> name, value |-> value]}

\* getattr(instance, name, default)
getattr(instance, name, default) ==
    IF \E e \in instance.dict : e.name = name
    THEN (CHOOSE e \in instance.dict : e.name = name).value
    ELSE default

\* MethodDescriptor("variable").private_name
private_name == <<"_","v","a","r","i","a","b","l","e">>

\* MethodDescriptor.__get__
MethodDescriptor_get(instance) == getattr(instance, private_name, None)

\* MethodDescriptor.__set__: the instance with the attribute set
\* (MethodDescriptor_set_Kept leaves a callable that is set in place)
MethodDescriptor_set_Kept(instance, value) ==
    IF MethodDescriptor_get(instance) # None THEN instance
    ELSE [instance EXCEPT !.dict = dict_update(@, private_name, value)]

MethodDescriptor_set(instance, value) ==
    [instance EXCEPT !.dict = dict_update(@, private_name, value)]

\* Role(description, entity): its key and its subroles, a list of Role or
\* None
Role(key, subroles) == [tag |-> "Role", key |-> key, subroles |-> subroles]

\* a role description: {"key": key, "subroles": subroles}, subroles being a
\* list of keys or None when the description has none
RoleLike(key, subroles) == [key |-> key, subroles |-> subroles]

\* RoleBuilder.__call__(items): the Role of each description, in order, with
\* a Role for each of its subroles
RoleBuilder(items) ==
    [i \in 1..Len(items) |->
        Role(items[i].key,
             IF items[i].subroles = None \/ items[i].subroles.items = <<>>
             THEN None
             ELSE PyList([j \in 1..Len(items[i].subroles.items) |->
                            Role(items[i].subroles.items[j], None)]))]

\* the arrays of a list, one after another: the nested for of a
\* comprehension
RECURSIVE chain(_)
chain(arrays) ==
    IF arrays = <<>> THEN <<>> ELSE Head(arrays) \o chain(Tail(arrays))

\* GroupEntity._flatten taking the role itself, whatever its subroles
flatten_RolesOnly(roles) == chain([i \in 1..Len(roles) |-> <<roles[i]>>])

\* GroupEntity._flatten:
\* [array for role in roles for array in role.subroles or [role]]
flatten(roles) ==
    chain([i \in 1..Len(roles) |->
            IF roles[i].subroles # None /\ roles[i].subroles.items # <<>>
            THEN roles[i].subroles.items
            ELSE <<roles[i]>>])

\* for role in roles: self.__dict__.update({role.key.upper(): role})
RECURSIVE assign_roles(_, _)
assign_roles(dict, roles) ==
    IF roles = <<>> THEN dict
    ELSE assign_roles(dict_update(dict, upper(Head(roles).key.chars),
                                  Head(roles)),
                      Tail(roles))

\* Entity(key, plural, label, doc)
Entity(key, plural, label, doc) ==
    [tag |-> "Entity", key |-> key, plural |-> plural, label |-> label,
     doc |-> PyStr(dedent(doc.chars)), dict |-> {}]

\* GroupEntity(key, plural, label, doc, roles)
GroupEntity(key, plural, label, doc, roles) ==
    LET built == RoleBuilder(roles.items)
    IN  [tag |-> "GroupEntity", key |-> key, plural |-> plural,
         label |-> label, doc |-> PyStr(dedent(doc.chars)),
         roles_description |-> roles,
         roles |-> built,
         flattened_roles |-> flatten(built),
         dict |-> assign_roles(assign_roles({}, built), flatten(built))]

\* hasattr(value, "__iter__")
has_iter(value) == value.tag \in {"list", "tuple", "str"}

\* build_entity taking an Entity only when there are no roles
build_entity_ByRoles(key, plural, label, doc, roles, is_person) ==
    IF is_person /\ roles = None
    THEN [err |-> "none", value |-> Entity(key, plural, label, doc)]
    ELSE IF roles # None /\ has_iter(roles)
    THEN [err |-> "none", value |-> GroupEntity(key, plural, label, doc, roles)]
    ELSE [err |-> "ValueError", value |-> None]

\* build_entity(key, plural, label, doc, roles, is_person): the error raised
\* and the object built
build_entity(key, plural, label, doc, roles, is_person) ==
    IF is_person
    THEN [err |-> "none", value |-> Entity(key, plural, label, doc)]
    ELSE IF roles # None /\ has_iter(roles)
    THEN [err |-> "none", value |-> GroupEntity(key, plural, label, doc, roles)]
    ELSE [err |-> "ValueError", value |-> None]

\* a == b of two objects of heap: the __eq__ that dataclass writes compares
\* the fields when the classes are the same, and returns NotImplemented
\* when they are not, which leaves the identity to decide
dataclass_eq_ByKey(a, b) ==
    IF heap[a.id].tag = heap[b.id].tag
    THEN heap[a.id].key = heap[b.id].key
    ELSE a = b

dataclass_eq(a, b) ==
    IF heap[a.id].tag = heap[b.id].tag
    THEN <<heap[a.id].key, heap[a.id].plural, heap[a.id].label, heap[a.id].doc>>
            = <<heap[b.id].key, heap[b.id].plural, heap[b.id].label,
                heap[b.id].doc>>
    ELSE a = b

\* the variables of the tax-benefit systems, and the place in heap of the
\* entity each one is declared for
Variables ==
    [tbs   |-> [ThisVariable |-> 1, ThatVariable |-> 2],
     other |-> [ThisVariable |-> 2]]

VariableNames == {"ThisVariable", "ThatVariable", "asdf"}

\* one call of a lookup
Invocation(method, variable_name, check_existence) ==
    [lookup |-> method, name |-> variable_name,
     check_existence |-> check_existence]

\* tax_benefit_system.get_variable(variable_name, check_existence): the
\* Variable of that name; when there is none, None, or VariableNotFoundError
\* under check_existence
get_variable(method, variable_name, check_existence) ==
    IF variable_name \in DOMAIN Variables[method.of]
    THEN [err |-> "none",
          value |-> Variable(variable_name,
                             Ref(Variables[method.of][variable_name]))]
    ELSE IF check_existence
    THEN [err |-> "VariableNotFoundError", value |-> None]
    ELSE [err |-> "none", value |-> None]

\* what the error of a variable declared for another entity says
Mismatch(variable_name, plural, other) ==
    [tag |-> "message", variable_name |-> variable_name, plural |-> plural,
     other |-> other]

\* Entity.get_variable(variable_name, check_existence) and
\* GroupEntity.get_variable: the error raised, the value returned and the
\* calls made of the lookup
Entity_get_variable(self, variable_name, check_existence) ==
    LET variable == MethodDescriptor_get(heap[self.id])
    IN  IF variable = None
        THEN [err |-> "none", value |-> None, invoked |-> <<>>]
        ELSE LET found == get_variable(variable, variable_name, check_existence)
             IN  [err |-> found.err, value |-> found.value,
                  invoked |-> <<Invocation(variable, variable_name,
                                           check_existence)>>]

\* check_variable calling the lookup whether it is set or not
check_variable_Unguarded(entity, variable_name) ==
    LET variable == MethodDescriptor_get(heap[entity.id])
    IN  IF variable = None
        THEN [err |-> "TypeError", value |-> None, invoked |-> <<>>]
        ELSE LET found == get_variable(variable, variable_name, TRUE)
                 made  == <<Invocation(variable, variable_name, TRUE)>>
             IN  IF found.err # "none"
                 THEN [err |-> found.err, value |-> None, invoked |-> made]
                 ELSE IF /\ found.value # None
                         /\ ~dataclass_eq(found.value.entity, entity)
                 THEN [err |-> "EntityMismatchError",
                       value |-> Mismatch(variable_name,
                                          heap[entity.id].plural,
                                          heap[found.value.entity.id].plural),
                       invoked |-> made]
                 ELSE [err |-> "none", value |-> None, invoked |-> made]

\* check_variable calling the lookup without check_existence
check_variable_Unchecked(entity, variable_name) ==
    LET variable == MethodDescriptor_get(heap[entity.id])
    IN  IF variable = None
        THEN [err |-> "none", value |-> None, invoked |-> <<>>]
        ELSE LET found == get_variable(variable, variable_name, FALSE)
                 made  == <<Invocation(variable, variable_name, FALSE)>>
             IN  IF found.err # "none"
                 THEN [err |-> found.err, value |-> None, invoked |-> made]
                 ELSE IF /\ found.value # None
                         /\ ~dataclass_eq(found.value.entity, entity)
                 THEN [err |-> "EntityMismatchError",
                       value |-> Mismatch(variable_name,
                                          heap[entity.id].plural,
                                          heap[found.value.entity.id].plural),
                       invoked |-> made]
                 ELSE [err |-> "none", value |-> None, invoked |-> made]

\* the check of the three check_variable_defined_for_entity, which differ
\* in where the entity comes from: the lookup is called with
\* check_existence = True, and a Variable found for an entity that is
\* != the one checked raises
check_variable(entity, variable_name) ==
    LET variable == MethodDescriptor_get(heap[entity.id])
    IN  IF variable = None
        THEN [err |-> "none", value |-> None, invoked |-> <<>>]
        ELSE LET found == get_variable(variable, variable_name, TRUE)
                 made  == <<Invocation(variable, variable_name, TRUE)>>
             IN  IF found.err # "none"
                 THEN [err |-> found.err, value |-> None, invoked |-> made]
                 ELSE IF /\ found.value # None
                         /\ ~dataclass_eq(found.value.entity, entity)
                 THEN [err |-> "EntityMismatchError",
                       value |-> Mismatch(variable_name,
                                          heap[entity.id].plural,
                                          heap[found.value.entity.id].plural),
                       invoked |-> made]
                 ELSE [err |-> "none", value |-> None, invoked |-> made]

\* Entity.check_variable_defined_for_entity(variable_name)
Entity_check_variable_defined_for_entity(self, variable_name) ==
    check_variable(self, variable_name)

\* GroupEntity.check_variable_defined_for_entity(variable_name)
GroupEntity_check_variable_defined_for_entity(self, variable_name) ==
    check_variable(self, variable_name)

\* helpers.check_variable_defined_for_entity(entity, variable_name)
check_variable_defined_for_entity(entity, variable_name) ==
    check_variable(entity, variable_name)

-----------------------------------------------------------------------------
(* Calls on entities.  At first there are an Entity and a GroupEntity, the *)
(* ones the variables are declared for; build_entity adds to them, and     *)
(* the lookup of any of them is set, read and used in any order.           *)

\* the key and the plural of the entities built
EntityNames ==
    {[key |-> PyStr(<<"k","e","y">>), plural |-> PyStr(<<"k","e","y","s">>)],
     [key |-> PyStr(<<"k","e","y">>), plural |-> PyStr(<<"o","t","h","e","r","s">>)],
     [key |-> PyStr(<<"a","n","o","t","h","e","r","-","k","e","y">>),
      plural |-> PyStr(<<"o","t","h","e","r","s">>)]}

RolesGiven ==
    PyList(<<RoleLike(PyStr(<<"p","a","r","e","n","t">>),
                      PyList(<<PyStr(<<"f","i","r","s","t","_","p","a","r","e","n","t">>),
                               PyStr(<<"s","e","c","o","n","d","_","p","a","r","e","n","t">>)>>)),
             RoleLike(PyStr(<<"c","h","i","l","d">>), None)>>)

Entities == {Ref(n) : n \in 1..Len(heap)}

InitEntities ==
    /\ inst = Instant(2021, 9, 13)
    /\ call = NoCall
    /\ ret = None
    /\ err = "none"
    /\ calls = 0
    /\ origin = inst
    /\ before = [call |-> NoCall, ret |-> None]
    /\ NoConversions
    /\ heap = <<Entity(PyStr(<<"k","e","y">>), PyStr(<<"k","e","y","s">>), PyStr(<<"l","a","b","e","l">>),
                       PyStr(<<"d","o","c">>)),
                GroupEntity(PyStr(<<"k","e","y">>), PyStr(<<"k","e","y","s">>), PyStr(<<"l","a","b","e","l">>),
                            PyStr(<<"d","o","c">>), RolesGiven)>>
    /\ invoked = <<>>

\* a call on entities ends: the call, what it returned or raised, and the
\* calls it made of the lookups
Answered(op, self, args, out) ==
    /\ calls < MaxEntityCalls
    /\ call' = [op |-> op, self |-> self, args |-> args]
    /\ ret' = out.value
    /\ err' = out.err
    /\ calls' = calls + 1
    /\ invoked' = out.invoked
    /\ UNCHANGED dateVars
    /\ UNCHANGED <<inst, origin, before>>

\* build_entity(key, plural, label, doc, roles, is_person)
BuildEntity ==
    /\ Len(heap) < MaxObjects
    /\ \E names \in EntityNames,
          doc \in {PyStr(<<"d","o","c">>), PyStr(<<" "," ","d","o","c">>)},
          roles \in {None, PyList(<<>>), RolesGiven, PyInt(5)},
          is_person \in BOOLEAN :
        LET key == names.key
            plural == names.plural
            out == build_entity(key, plural, PyStr(<<"l","a","b","e","l">>), doc, roles,
                                is_person)
        IN  /\ heap' = IF out.err = "none" THEN Append(heap, out.value)
                       ELSE heap
            /\ Answered("build_entity", None,
                        <<key, plural, PyStr(<<"l","a","b","e","l">>), doc, roles,
                          PyBool(is_person)>>,
                        [err |-> out.err,
                         value |-> IF out.err = "none" THEN Ref(Len(heap) + 1)
                                   ELSE None,
                         invoked |-> <<>>])

\* entity.variable = method
SetVariable ==
    \E entity \in Entities,
       method \in {Method(system) : system \in DOMAIN Variables} :
        /\ heap' = [heap EXCEPT ![entity.id] = MethodDescriptor_set(@, method)]
        /\ Answered("variable.__set__", entity, <<method>>,
                    [err |-> "none", value |-> None, invoked |-> <<>>])

\* entity.set_tax_benefit_system(tax_benefit_system), which sets
\* tax_benefit_system.get_variable
SetTaxBenefitSystem ==
    \E entity \in Entities, system \in DOMAIN Variables :
        /\ heap' = [heap EXCEPT
                        ![entity.id] = MethodDescriptor_set(@, Method(system))]
        /\ Answered("set_tax_benefit_system", entity, <<system>>,
                    [err |-> "none", value |-> None, invoked |-> <<>>])

\* entity.variable
ReadVariable ==
    \E entity \in Entities :
        /\ Answered("variable.__get__", entity, <<>>,
                    [err |-> "none",
                     value |-> MethodDescriptor_get(heap[entity.id]),
                     invoked |-> <<>>])
        /\ UNCHANGED heap

\* entity.get_variable(variable_name, check_existence)
GetVariable ==
    \E entity \in Entities, variable_name \in VariableNames,
       check_existence \in BOOLEAN :
        /\ Answered("get_variable", entity,
                    <<variable_name, PyBool(check_existence)>>,
                    Entity_get_variable(entity, variable_name, check_existence))
        /\ UNCHANGED heap

\* entity.check_variable_defined_for_entity(variable_name)
CheckMethod ==
    \E entity \in Entities, variable_name \in VariableNames :
        /\ Answered("check_variable_defined_for_entity", entity,
                    <<variable_name>>,
                    IF heap[entity.id].tag = "Entity"
                    THEN Entity_check_variable_defined_for_entity(
                             entity, variable_name)
                    ELSE GroupEntity_check_variable_defined_for_entity(
                             entity, variable_name))
        /\ UNCHANGED heap

\* check_variable_defined_for_entity(entity, variable_name)
CheckHelper ==
    \E entity \in Entities, variable_name \in VariableNames :
        /\ Answered("check_variable_defined_for_entity", None,
                    <<entity, variable_name>>,
                    check_variable_defined_for_entity(entity, variable_name))
        /\ UNCHANGED heap

NextEntities ==
    \/ BuildEntity
    \/ SetVariable
    \/ SetTaxBenefitSystem
    \/ ReadVariable
    \/ GetVariable
    \/ CheckMethod
    \/ CheckHelper

SpecEntities == InitEntities /\ [][NextEntities]_vars

-----------------------------------------------------------------------------
(* The Gregorian calendar as the specification states it, against which    *)
(* the results of Instant.offset are compared.                             *)

\* leap = divisible by 4, not by 100 unless by 400
LeapYear(y) == y % 4 = 0 /\ ~ (y % 100 = 0 /\ y % 400 # 0)

DaysInMonth(y, m) ==
    IF m = 2 THEN (IF LeapYear(y) THEN 29 ELSE 28)
    ELSE IF m \in {4, 6, 9, 11} THEN 30 ELSE 31

RECURSIVE DaysBeforeMonth(_, _)
DaysBeforeMonth(y, m) ==
    IF m = 1 THEN 0 ELSE DaysBeforeMonth(y, m - 1) + DaysInMonth(y, m - 1)

\* the number of the day (y, m, d), counting from January 1 of year 1
DayNumber(i) ==
    LET p == i.year - 1
    IN  365 * p + (p \div 4) - (p \div 100) + (p \div 400)
            + DaysBeforeMonth(i.year, i.month) + i.day

CalendarDate(i) ==
    /\ i.tag = "Instant"
    /\ i.month \in 1..12
    /\ i.day \in 1..DaysInMonth(i.year, i.month)

Min(a, b) == IF a < b THEN a ELSE b

DayArgs == {Day, PyStr(<<"d","a","y">>)}

MonthArgs == {Month, PyStr(<<"m","o","n","t","h">>)}

YearArgs == {Year, PyStr(<<"y","e","a","r">>)}

\* the last call was self.offset(n, unit) with an int n and unit in units
IntOffsetCall(units) ==
    /\ call.op = "offset"
    /\ call.args[1].tag = "int"
    /\ call.args[2] \in units

\* the last call was self.offset(anchor, unit) with unit in units
AnchorCall(anchor, units) ==
    /\ call.op = "offset"
    /\ call.args[1] = anchor
    /\ call.args[2] \in units

-----------------------------------------------------------------------------
\* C1: offset(n, day) returns the calendar date that lies n days after the
\* receiver (before it when n < 0): a valid date whose day number is the
\* receiver's plus n.
C1_DayOffsetIsCalendarExact ==
    IntOffsetCall(DayArgs) =>
        /\ err = "none"
        /\ CalendarDate(ret)
        /\ DayNumber(ret) = DayNumber(call.self) + call.args[1].val

\* March 1 of a leap year less one day is February 29; December 31 plus
\* MaxDays days carries over the year end and over January.
C1_Witness ==
    /\ IntOffsetCall(DayArgs)
    /\ \/ call.self = Instant(2020, 3, 1) /\ call.args[1].val = -1
          /\ ret = Instant(2020, 2, 29)
       \/ call.self = Instant(1900, 3, 1) /\ call.args[1].val = -1
          /\ ret = Instant(1900, 2, 28)

\* C2: offset(n, month) returns the month n months away, with the year
\* carried or borrowed, and the day min(d, length of that month).
C2_MonthOffsetClampsDay ==
    IntOffsetCall(MonthArgs) =>
        LET total == 12 * call.self.year + (call.self.month - 1)
                        + call.args[1].val
            y2 == total \div 12
            m2 == (total % 12) + 1
        IN  /\ err = "none"
            /\ ret = Instant(y2, m2, Min(call.self.day, DaysInMonth(y2, m2)))

\* January 31 plus MaxMonths months lands in a February: the year is carried
\* and the day clamped.
C2_Witness ==
    /\ IntOffsetCall(MonthArgs)
    /\ call.self.day = 31
    /\ ret.month = 2
    /\ ret.day = 28
    /\ ret.year = call.self.year + 1

\* C3: offset(n, year) returns (y + n, m, d), with d = 28 in place of 29
\* when the date is February 29 and y + n is not a leap year.
C3_YearOffsetClampsLeapDay ==
    IntOffsetCall(YearArgs) =>
        LET y2 == call.self.year + call.args[1].val
            d2 == IF call.self.month = 2 /\ call.self.day = 29 /\ ~ LeapYear(y2)
                  THEN 28 ELSE call.self.day
        IN  /\ err = "none"
            /\ ret = Instant(y2, call.self.month, d2)

\* February 29 of 2000 moved to 1900, which is not a leap year.
C3_Witness ==
    /\ IntOffsetCall(YearArgs)
    /\ call.self = Instant(2000, 2, 29)
    /\ ret = Instant(1900, 2, 28)

\* C4: 'first-of' month is day 1; 'first-of' year is January 1; 'last-of'
\* month is the last day of the month; 'last-of' year is December 31; both
\* anchors leave the instant unchanged with the unit day.
C4_AnchoredOffsets ==
    LET i == call.self
    IN  /\ AnchorCall(FirstOf, MonthArgs) => ret = Instant(i.year, i.month, 1)
        /\ AnchorCall(FirstOf, YearArgs) => ret = Instant(i.year, 1, 1)
        /\ AnchorCall(LastOf, MonthArgs) =>
                ret = Instant(i.year, i.month, DaysInMonth(i.year, i.month))
        /\ AnchorCall(LastOf, YearArgs) => ret = Instant(i.year, 12, 31)
        /\ AnchorCall(FirstOf, DayArgs) => ret = i
        /\ AnchorCall(LastOf, DayArgs) => ret = i

\* The last day of February in a leap year.
C4_Witness ==
    /\ AnchorCall(LastOf, MonthArgs)
    /\ call.self = Instant(2020, 2, 3)
    /\ ret = Instant(2020, 2, 29)

\* C5: after offset(n, u) and then offset(-n, u) the instant is the one the
\* first call was made on, whenever the first call did not clamp the day
\* (it kept the day, or u is day).
C5_RoundTripWithoutClamp ==
    (/\ calls = 2
     /\ IntOffsetCall(DayArgs \cup MonthArgs \cup YearArgs)
     /\ call.args[2] \in DayArgs \/ call.self.day = origin.day)
        => (err = "none" /\ ret = origin)

\* January 29 of 2020 plus a month is February 29; less a month, January 29.
C5_Witness ==
    /\ calls = 2
    /\ IntOffsetCall(MonthArgs)
    /\ origin = Instant(2020, 1, 29)
    /\ call.self = Instant(2020, 2, 29)
    /\ ret = origin

\* the two calls offset(1, month) and offset(-1, month) were made on
\* January 31 of 2021
C6_Case ==
    /\ calls = 2
    /\ origin = Instant(2021, 1, 31)
    /\ IntOffsetCall(MonthArgs)
    /\ call.args[1].val = -1

\* C6 as stated: the two calls yield (2021, 2, 28).
C6_AsStated == C6_Case => ret = Instant(2021, 2, 28)

\* C6: from (2021, 1, 31), offset(1, month) yields (2021, 2, 28) and
\* offset(-1, month) on it yields (2021, 1, 28), not the original instant.
C6_RoundTripLosesDay ==
    C6_Case => (call.self = Instant(2021, 2, 28) /\ ret = Instant(2021, 1, 28))

C6_Witness == C6_Case /\ ret = Instant(2021, 1, 28)

\* the spellings that denote no unit or the Eternity unit
NotEtherealArgs ==
    {Eternity, PyStr(<<"e","t","e","r","n","i","t","y">>),
     PyStr(<<"w","e","e","k">>)}

\* C7: offset with the Eternity unit, or with a unit that is not day, month
\* or year, raises InvalidUnitError and returns no instant, whatever the
\* amount.
C7_EternityRejected ==
    (call.op = "offset" /\ call.args[2] \in NotEtherealArgs) =>
        (err = "InvalidUnitError" /\ ret = None)

C7_Witness ==
    /\ call.op = "offset"
    /\ call.args = <<FirstOf, Eternity>>
    /\ err = "InvalidUnitError"
    /\ ret = None

-----------------------------------------------------------------------------
\* the arguments that are one of the four Units, or spell one
FourUnits ==
    {Day, Month, Year, Eternity,
     PyStr(<<"d","a","y">>), PyStr(<<"m","o","n","t","h">>),
     PyStr(<<"y","e","a","r">>), PyStr(<<"e","t","e","r","n","i","t","y">>),
     PyStr(<<"D","A","Y">>), PyStr(<<"M","o","n","t","h">>),
     PyStr(<<"Y","E","A","R">>)}

\* C8: period(unit, size) returns the Period (unit, self, size), size being 1
\* when left out, when unit is one of the four Units and size an int >= 1;
\* it raises InvalidUnitError when unit is not one of them, and
\* InvalidSizeError when the unit is one and size is not an int >= 1; it
\* returns no Period in both cases.
C8_PeriodOfInstant ==
    call.op = "Instant.period" =>
        LET unit == call.args[1]
            size == IF call.args[2] = Omitted THEN PyInt(1) ELSE call.args[2]
            positive == size.tag = "int" /\ size.val >= 1
        IN  /\ (unit \in FourUnits /\ positive) =>
                    (err = "none" /\ ret = Period(unit, call.self, size))
            /\ unit \notin FourUnits =>
                    (err = "InvalidUnitError" /\ ret = None)
            /\ (unit \in FourUnits /\ ~ positive) =>
                    (err = "InvalidSizeError" /\ ret = None)

\* A size left out is 1; a size of 0 is refused.
C8_Witness ==
    /\ call.op = "Instant.period"
    /\ \/ call.args = <<Month, Omitted>> /\ ret = Period(Month, inst, PyInt(1))
       \/ call.args = <<Year, PyInt(0)>> /\ err = "InvalidSizeError"

\* the texts 'YYYY', 'YYYY-MM' and 'YYYY-MM-DD' of the dates of the
\* calendar, each with the Period it stands for
SimpleDateTable ==
    {<<Written(y, 4, TRUE), Period(Year, Instant(y, 1, 1), PyInt(1))>> :
        y \in TextYears}
    \cup
    {<<Written(y, 4, TRUE) \o <<"-">> \o Written(m, 2, p),
       Period(Month, Instant(y, m, 1), PyInt(1))>> :
        y \in TextYears, m \in TextMonths \cap 1..12, p \in BOOLEAN}
    \cup
    UNION {
        {<<Written(y, 4, TRUE) \o <<"-">> \o Written(m, 2, p) \o <<"-">>
                \o Written(d, 2, q),
           Period(Day, Instant(y, m, d), PyInt(1))>> :
            d \in TextDays \cap 1..DaysInMonth(y, m),
            p \in BOOLEAN, q \in BOOLEAN} :
        y \in TextYears, m \in TextMonths \cap 1..12}

\* C9: period(y) of an int and period('YYYY') are (Year, (y, 1, 1), 1);
\* period('YYYY-MM') is (Month, (y, m, 1), 1); period('YYYY-MM-DD') of a
\* date of the calendar is (Day, (y, m, d), 1).
C9_SimpleDates ==
    call.op = "period" =>
        /\ call.args[1].tag = "int" =>
                ret = Period(Year, Instant(call.args[1].val, 1, 1), PyInt(1))
        /\ \A e \in SimpleDateTable :
                call.args[1] = PyStr(e[1]) => (err = "none" /\ ret = e[2])

\* February 29 of a leap year, and a December written in a month text.
C9_Witness ==
    /\ call.op = "period"
    /\ \/ call.args[1] = PyStr(<<"2","0","2","0","-","0","2","-","2","9">>)
          /\ ret = Period(Day, Instant(2020, 2, 29), PyInt(1))
       \/ call.args[1] = PyStr(<<"2","0","2","1","-","1","2">>)
          /\ ret = Period(Month, Instant(2021, 12, 1), PyInt(1))

\* C10: period(p) of a Period p returns p unchanged, so that parsing what
\* period() returned returns it again; period(i) of an Instant i returns
\* (Day, i, 1).
C10_ParsedValuesKept ==
    call.op = "period" =>
        /\ call.args[1].tag = "Period" =>
                (err = "none" /\ ret = call.args[1])
        /\ call.args[1].tag = "Instant" =>
                (err = "none" /\ ret = Period(Day, call.args[1], PyInt(1)))

\* The Period of 'year:2020-02:3' handed back to period().
C10_Witness ==
    /\ calls = 2
    /\ call.op = "period"
    /\ call.args[1] = Period(PyStr(<<"y","e","a","r">>), Instant(2020, 2, 1),
                              PyInt(3))
    /\ ret = call.args[1]

\* C11: period('ETERNITY') and period(Unit.Eternity) return the Period of
\* unit eternity that starts on (1, 1, 1) and has an infinite size.
C11_EternityPeriod ==
    (call.op = "period"
            /\ call.args[1] \in {PyStr(<<"E","T","E","R","N","I","T","Y">>), Eternity}) =>
        /\ err = "none"
        /\ ret.tag = "Period"
        /\ PyEq(Eternity, ret.unit)
        /\ ret.start = Instant(1, 1, 1)
        /\ ret.size = Infinity

\* period(Unit.Eternity) has returned the eternity Period.
C11_Witness ==
    /\ call.op = "period"
    /\ call.args[1] = Eternity
    /\ ret = Period(PyStr(<<"e","t","e","r","n","i","t","y">>), Instant(1, 1, 1), Infinity)

\* the spellings a compound text accepts for its unit, each with its member
EtherealTable ==
    {<<<<"d","a","y">>, Day>>, <<<<"m","o","n","t","h">>, Month>>, <<<<"y","e","a","r">>, Year>>}

\* the size texts that are integers, each with its value
SizeTable ==
    {<<<<"1">>, 1>>, <<<<"3">>, 3>>, <<<<"1","0">>, 10>>, <<<<"0">>, 0>>, <<<<"-","3">>, 0 - 3>>}

\* the well-formed compound texts '<unit>:<simple-date>[:<size>]': each with
\* its unit, the Period of its simple date and its size
CompoundTable ==
    {<<u[1] \o <<":">> \o e[1], u[2], e[2], 1>> :
        u \in EtherealTable, e \in SimpleDateTable}
    \cup
    {<<u[1] \o <<":">> \o e[1] \o <<":">> \o n[1], u[2], e[2], n[2]>> :
        u \in EtherealTable, e \in SimpleDateTable, n \in SizeTable}

\* C12: a compound text that period() accepts gives the Period of the unit
\* written, of the start that its simple date parses to (the components left
\* out being 1) and of the size written, 1 when none is.
C12_CompoundPeriods ==
    (call.op = "period" /\ err = "none" /\ call.args[1].tag = "str") =>
        \A c \in CompoundTable :
            call.args[1].chars = c[1] =>
                /\ ret.tag = "Period"
                /\ PyEq(c[2], ret.unit)
                /\ ret.start = c[3].start
                /\ ret.size = PyInt(c[4])

\* 'year:2020-02:3' starts in February, and 'year:2021-12' has size 1.
C12_Witness ==
    /\ call.op = "period"
    /\ \/ call.args[1] = PyStr(<<"y","e","a","r",":","2","0","2","0","-","0","2",":","3">>)
          /\ ret = Period(PyStr(<<"y","e","a","r">>), Instant(2020, 2, 1), PyInt(3))
       \/ call.args[1] = PyStr(<<"y","e","a","r",":","2","0","2","1","-","1","2">>)
          /\ ret = Period(PyStr(<<"y","e","a","r">>), Instant(2021, 12, 1), PyInt(1))

\* C13: a well-formed compound text is rejected with InvalidPeriodError
\* exactly when the unit of its simple date weighs more than the unit
\* written; it is accepted when the weights are equal or the unit written
\* weighs more.
C13_FinerUnitRejected ==
    (call.op = "period" /\ call.args[1].tag = "str") =>
        \A c \in CompoundTable :
            call.args[1].chars = c[1] =>
                /\ err \in {"none", "InvalidPeriodError"}
                /\ err = "InvalidPeriodError" <=> c[3].unit.weight > c[2].weight

\* 'month:2020' is rejected.
C13_Witness ==
    /\ call.op = "period"
    /\ call.args[1] = PyStr(<<"m","o","n","t","h",":","2","0","2","0">>)
    /\ err = "InvalidPeriodError"

\* C14: a Period that period() or Instant.period returns and that is not of
\* unit eternity has an integer size of at least 1.
C14_SizeAtLeastOne ==
    (call.op \in {"period", "Instant.period"} /\ err = "none"
            /\ ret.tag = "Period" /\ ~ PyEq(Eternity, ret.unit)) =>
        /\ ret.size.tag = "int"
        /\ ret.size.val >= 1

\* the simple dates that parse
ParsedTexts == {e[1] : e \in SimpleDateTable} \cup SpacedTexts

UnparsedTexts == SimpleTexts \ ParsedTexts

\* the units a compound text may not be written with
UnacceptedUnitTexts == UnitTexts \ {u[1] : u \in EtherealTable}

\* the values outside of the forms that period() accepts: a value of
\* another type, a text without ':' that is no simple date, a compound text
\* of more than three components, of a unit that is not day, month or year
\* in lower case, of a simple date that does not parse, or of a size that is
\* no integer
UnacceptedValues ==
    {None, Day}
    \cup {PyStr(t) : t \in UnparsedTexts}
    \cup {PyStr(t) : t \in
            {c \in CompoundTexts :
                \/ \E u \in UnacceptedUnitTexts :
                        /\ Len(c) > Len(u)
                        /\ SubSeq(c, 1, Len(u) + 1) = u \o <<":">>
                \/ \E u \in UnitTexts, d \in UnparsedTexts :
                        \/ c = u \o <<":">> \o d
                        \/ /\ Len(c) >= Len(u) + Len(d) + 2
                           /\ SubSeq(c, 1, Len(u) + Len(d) + 2)
                                = u \o <<":">> \o d \o <<":">>
                \/ \E u \in UnitTexts, d \in SimpleTexts,
                            n \in SizeTexts \ {z[1] : z \in SizeTable} :
                        c = u \o <<":">> \o d \o <<":">> \o n}}

\* the spellings of eternity that are not the literal 'ETERNITY'
EternitySpellings == EternityTexts \ {<<"E","T","E","R","N","I","T","Y">>}

\* C15 as stated: period() fails with InvalidPeriodError on every value
\* outside of the accepted forms, a text without ':' that is no simple date
\* and not the literal 'ETERNITY' being one.
C15_AsStated ==
    (call.op = "period"
            /\ call.args[1] \in
                UnacceptedValues \cup {PyStr(t) : t \in EternitySpellings}) =>
        (err = "InvalidPeriodError" /\ ret = None)

\* C15: period() fails with InvalidPeriodError on every value outside of the
\* accepted forms, where a text that spells eternity in any case is an
\* accepted form.
C15_UnacceptedValuesFail ==
    (call.op = "period" /\ call.args[1] \in UnacceptedValues) =>
        (err = "InvalidPeriodError" /\ ret = None)

\* 'YEAR:2020' is rejected.
C15_Witness ==
    /\ call.op = "period"
    /\ call.args[1] = PyStr(<<"Y","E","A","R",":","2","0","2","0">>)
    /\ err = "InvalidPeriodError"

\* the units of KeyPeriods, each with its weight as it is written
KeyUnitTable ==
    {<<Day, <<"1","0","0">>>>, <<Year, <<"3","0","0">>>>, <<PyStr(<<"m","o","n","t","h">>), <<"2","0","0">>>>,
     <<PyStr(<<"Y","e","a","r">>), <<"3","0","0">>>>, <<PyStr(<<"E","T","E","R","N","I","T","Y">>), <<"4","0","0">>>>,
     <<PyStr(<<"e","t","e","r","n","i","t","y">>), <<"4","0","0">>>>}

\* the sizes of KeyPeriods, each as it is written
KeySizeTable ==
    {<<PyInt(1), <<"1">>>>, <<PyInt(2), <<"2">>>>, <<PyInt(3), <<"3">>>>,
     <<PyInt(10), <<"1","0">>>>, <<PyInt(12), <<"1","2">>>>, <<Infinity, <<"i","n","f">>>>}

\* C16: key_period_size(period) is '<weight>_<size>', the weight being 100,
\* 200, 300 or 400 for day, month, year or eternity, whether the unit of the
\* period is a Unit or a str that spells one in any case.
C16_SortKeyText ==
    call.op = "key_period_size" =>
        \A u \in KeyUnitTable, n \in KeySizeTable :
            (call.args[1].unit = u[1] /\ call.args[1].size = n[1]) =>
                (err = "none" /\ ret = PyStr(u[2] \o <<"_">> \o n[2]))

\* The key of (Day, i, 1) is '100_1', that of ('ETERNITY', i, 12) '400_12'.
C16_Witness ==
    /\ call.op = "key_period_size"
    /\ \/ call.args[1].unit = Day /\ ret = PyStr(<<"1","0","0","_","1">>)
       \/ call.args[1].unit = PyStr(<<"E","T","E","R","N","I","T","Y">>) /\ ret = PyStr(<<"4","0","0","_","1","2">>)

\* the code point of a character
Ord ==
    [c \in Characters |->
        IF c \in DigitSet THEN 48 + DigitValue[c]
        ELSE IF \E i \in 1..26 : UpperLetters[i] = c
        THEN 64 + Position(c, UpperLetters)
        ELSE IF \E i \in 1..26 : LowerLetters[i] = c
        THEN 96 + Position(c, LowerLetters)
        ELSE IF c = " " THEN 32
        ELSE IF c = "+" THEN 43
        ELSE IF c = "-" THEN 45
        ELSE IF c = ":" THEN 58
        ELSE 95]

\* a < b of two str: the first character that differs decides, and a proper
\* prefix is less
RECURSIVE StrLess(_, _)
StrLess(a, b) ==
    IF b = <<>> THEN FALSE
    ELSE IF a = <<>> THEN TRUE
    ELSE IF a[1] # b[1] THEN Ord[a[1]] < Ord[b[1]]
    ELSE StrLess(Tail(a), Tail(b))

\* the weight of the unit of a Period
WeightOf(prd) ==
    IF prd.unit.tag = "Unit" THEN prd.unit.weight
    ELSE Unit_getitem(prd.unit).member.weight

\* C17: of two prds p and q of integer sizes, the key of p is less than
\* the key of q as a str exactly when p weighs less than q, or weighs the
\* same and has the smaller size.
C17_KeyOrderIsSizeOrder ==
    (calls = 2 /\ call.op = "key_period_size"
            /\ before.call.op = "key_period_size"
            /\ before.call.args[1].size.tag = "int"
            /\ call.args[1].size.tag = "int") =>
        LET p == before.call.args[1]
            q == call.args[1]
        IN  StrLess(before.ret.chars, ret.chars) <=>
                \/ WeightOf(p) < WeightOf(q)
                \/ WeightOf(p) = WeightOf(q) /\ p.size.val < q.size.val

\* the values compared with a Unit that denote one, each with its weight
DenotedWeights ==
    {<<Day, 100>>, <<Month, 200>>, <<Year, 300>>, <<Eternity, 400>>,
     <<PyStr(<<"d","a","y">>), 100>>, <<PyStr(<<"D","A","Y">>), 100>>, <<PyStr(<<"M","o","n","t","h">>), 200>>,
     <<PyStr(<<"y","E","A","R">>), 300>>, <<PyStr(<<"e","t","e","r","n","i","t","y">>), 400>>,
     <<PyStr(<<"E","T","E","R","N","I","T","Y">>), 400>>}

\* C18: a < b, a > b and a == b of a Unit a and of a Unit or spelling b are
\* the comparisons of their weights, so that exactly one of the three holds;
\* Day, Month, Year and Eternity weigh 100, 200, 300 and 400.
C18_UnitOrder ==
    call.op = "compare" =>
        /\ <<call.self, call.self.weight>> \in DenotedWeights
        /\ \A b \in DenotedWeights :
            call.args[1] = b[1] =>
                /\ err = "none"
                /\ ret.lt <=> call.self.weight < b[2]
                /\ ret.gt <=> call.self.weight > b[2]
                /\ ret.eq <=> call.self.weight = b[2]
                /\ \/ ret.lt /\ ~ ret.gt /\ ~ ret.eq
                   \/ ~ ret.lt /\ ret.gt /\ ~ ret.eq
                   \/ ~ ret.lt /\ ~ ret.gt /\ ret.eq

\* Month is less than 'yEAR', and Year equals it.
C18_Witness ==
    /\ call.op = "compare"
    /\ call.args[1] = PyStr(<<"y","E","A","R">>)
    /\ \/ call.self = Month /\ ret.lt /\ ~ ret.gt /\ ~ ret.eq
       \/ call.self = Year /\ ret.eq /\ ~ ret.lt /\ ~ ret.gt

\* the str looked up in Unit that spell a unit, each with its member
SpellingTable ==
    {<<<<"d","a","y">>, Day>>, <<<<"D","a","y">>, Day>>, <<<<"D","A","Y">>, Day>>, <<<<"d","A","Y">>, Day>>,
     <<<<"m","o","n","t","h">>, Month>>, <<<<"M","O","N","T","H">>, Month>>, <<<<"y","e","a","r">>, Year>>,
     <<<<"Y","e","a","r">>, Year>>, <<<<"e","t","e","r","n","i","t","y">>, Eternity>>, <<<<"E","T","E","R","N","I","T","Y">>, Eternity>>}

\* C19: a Unit is in Unit and Unit[u] is u; a str is in Unit exactly when
\* it spells day, month, year or eternity in any case, and then Unit[s] is
\* that member; Unit[s] of any other str fails with InvalidUnitError.
C19_ContainsAndLookup ==
    /\ call.op = "contains" =>
        /\ err = "none"
        /\ call.args[1].tag = "Unit" => ret = PyBool(TRUE)
        /\ call.args[1].tag = "str" =>
            ret = PyBool(\E e \in SpellingTable : e[1] = call.args[1].chars)
    /\ call.op = "getitem" =>
        /\ call.args[1].tag = "Unit" => (err = "none" /\ ret = call.args[1])
        /\ call.args[1].tag = "str" =>
            IF \E e \in SpellingTable : e[1] = call.args[1].chars
            THEN /\ err = "none"
                 /\ <<call.args[1].chars, ret>> \in SpellingTable
            ELSE err = "InvalidUnitError" /\ ret = None

\* 'dAY' is in Unit, and Unit['week'] fails.
C19_Witness ==
    \/ /\ call.op = "contains"
       /\ call.args[1] = PyStr(<<"d","A","Y">>)
       /\ ret = PyBool(TRUE)
    \/ /\ call.op = "getitem"
       /\ call.args[1] = PyStr(<<"w","e","e","k">>)
       /\ err = "InvalidUnitError"

\* C20: the Instant that instant() builds from the zero-padded text
\* 'YYYY-MM-DD' of a date of the calendar is written by str() as that text.
C20_TextRoundTrip ==
    (call.op = "str" /\ before.call.op = "instant"
            /\ before.call.args[1].tag = "str"
            /\ before.call.args[1].chars \in DateTexts) =>
        (err = "none" /\ ret = before.call.args[1])

\* '2020-02-29' and '0001-01-01' are written back.
C20_Witness ==
    /\ call.op = "str"
    /\ before.call.op = "instant"
    /\ before.call.args[1] \in {PyStr(<<"2","0","2","0","-","0","2","-","2","9">>), PyStr(<<"0","0","0","1","-","0","1","-","0","1">>)}
    /\ ret = before.call.args[1]

\* the Instant that the last conversion was made of
Converted_instant == IF call.op = "Instant.date" THEN call.self ELSE call.args[1]

\* C21: an Instant is built of any three integers; its conversion to a date
\* returns the date when (year, month, day) is a date of the calendar, and
\* fails with InvalidDateError when it is not.
C21_DateOfValidInstantsOnly ==
    (call.op \in {"Instant.date", "instant_date"} /\ Converted_instant # None)
        =>
        LET i == Converted_instant
        IN  IF i.month \in 1..12 /\ i.day \in 1..DaysInMonth(i.year, i.month)
            THEN err = "none" /\ ret = PyDate(i.year, i.month, i.day)
            ELSE err = "InvalidDateError" /\ ret = None

\* Instant((2021, 2, 30)).date fails.
C21_Witness ==
    /\ call.op = "Instant.date"
    /\ call.self = Instant(2021, 2, 30)
    /\ err = "InvalidDateError"

\* C22: over any interleaving of conversions by any callers, datetime.date
\* is called at most once for an Instant that is a date of the calendar: the
\* later conversions of that Instant are served from the cache.
C22_ComputedAtMostOnce ==
    call.op \in {"Instant.date", "instant_date"} =>
        \A i \in DOMAIN computed :
            Instant_date(i).err = "none" => computed[i] <= 1

\* C30: an offset of a date of the calendar that returns, returns a date of
\* the calendar: its month is in 1..12 and its day in 1..(the length of that
\* month in that year), so that every offset that follows is again made on
\* a date of the calendar; the receiver of the first call is still the
\* instant it was.
C30_OffsetKeepsValid ==
    (call.op = "offset" /\ err = "none") =>
        /\ ret.tag = "Instant"
        /\ ret.month \in 1..12
        /\ ret.day \in 1..DaysInMonth(ret.year, ret.month)
        /\ inst = ret
        /\ call.self.month \in 1..12
        /\ call.self.day \in 1..DaysInMonth(call.self.year, call.self.month)
        /\ calls = 1 => call.self = origin

\* February 29 offset by a year and back, and January 31 by a month and
\* back: the second offset is made on a clamped date.
C30_Witness ==
    /\ calls = 2
    /\ call.op = "offset"
    /\ err = "none"
    /\ \/ origin = Instant(2020, 2, 29) /\ call.args = <<PyInt(0 - 1), Year>>
       \/ origin = Instant(2021, 1, 31) /\ call.args = <<PyInt(0 - 1), Month>>

\* the lookup of the n-th object of a heap, None while the object is not built
LookupOf(objects, n) ==
    IF n \in 1..Len(objects) THEN getattr(objects[n], private_name, None)
    ELSE None

\* C23: every Entity and GroupEntity starts without a variable lookup; the
\* lookup of an object changes only by a call that sets it on that object, so
\* that it is None until then and no call on another entity changes it; a
\* call that sets it leaves the callable given, and reading it returns the
\* one it holds, the last one set.
C23_LookupIsSetOnItsEntityOnly ==
    /\ \A n \in 1..Len(heap) : LookupOf(heap, n) = None
    /\ [][/\ \A n \in 1..Len(heap') :
                LookupOf(heap', n) # LookupOf(heap, n) =>
                    /\ call'.op \in {"variable.__set__",
                                     "set_tax_benefit_system"}
                    /\ call'.self = Ref(n)
          /\ call'.op = "variable.__set__" =>
                LookupOf(heap', call'.self.id) = call'.args[1]
          /\ call'.op = "set_tax_benefit_system" =>
                LookupOf(heap', call'.self.id) = Method(call'.args[1])
          /\ call'.op = "variable.__get__" =>
                ret' = LookupOf(heap, call'.self.id)]_vars

\* the lookup of the first entity is read once it was set, while the
\* GroupEntity has none
C23_Witness ==
    /\ calls = 3
    /\ call.op = "variable.__get__"
    /\ call.self = Ref(1)
    /\ ret = Method("other")
    /\ LookupOf(heap, 2) = None

\* the entity that the last call checked, or asked for a variable
CheckedEntity == IF call.self = None THEN call.args[1] ELSE call.self

\* C24: a call of check_variable_defined_for_entity, as a method of an Entity
\* or of a GroupEntity or as the helper, and a call of get_variable, made on
\* an entity whose variable lookup is not set, returns None whatever the
\* name, raises nothing and calls no lookup.
C24_NoLookupNoCheck ==
    (/\ call.op \in {"check_variable_defined_for_entity", "get_variable"}
     /\ LookupOf(heap, CheckedEntity.id) = None) =>
        /\ ret = None
        /\ err = "none"
        /\ invoked = <<>>

\* the GroupEntity, which has no lookup, is checked for a variable that the
\* lookup of the first entity knows
C24_Witness ==
    /\ call.op = "check_variable_defined_for_entity"
    /\ CheckedEntity = Ref(2)
    /\ call.args[Len(call.args)] = "ThisVariable"
    /\ LookupOf(heap, 2) = None
    /\ LookupOf(heap, 1) = Method("tbs")

\* the name that the last check was given
CheckedName == call.args[Len(call.args)]

\* the last call checked an entity whose lookup is set for a name that the
\* tax-benefit system of the lookup has no variable of
CheckedUnknown ==
    /\ call.op = "check_variable_defined_for_entity"
    /\ LookupOf(heap, CheckedEntity.id) # None
    /\ CheckedName \notin DOMAIN Variables[LookupOf(heap, CheckedEntity.id).of]

C26_UnknownVariableIsNone ==
    (/\ call.op = "check_variable_defined_for_entity"
     /\ \A system \in DOMAIN Variables :
            CheckedName \notin DOMAIN Variables[system]) =>
        /\ err = "none"
        /\ ret = None

\* the last call checked an entity whose lookup is set for a name that the
\* tax-benefit system of the lookup has a variable of
CheckedKnown ==
    /\ call.op = "check_variable_defined_for_entity"
    /\ LookupOf(heap, CheckedEntity.id) # None
    /\ CheckedName \in DOMAIN Variables[LookupOf(heap, CheckedEntity.id).of]

\* the entity that the variable found by the last check is declared for
FoundEntity ==
    Ref(Variables[LookupOf(heap, CheckedEntity.id).of][CheckedName])

\* two objects of the same class with the same key, plural, label and doc
SameFields(a, b) ==
    /\ a.tag = b.tag
    /\ a.key = b.key
    /\ a.plural = b.plural
    /\ a.label = b.label
    /\ a.doc = b.doc

\* C27: a check that finds the variable returns None when the entity the
\* variable is declared for and the entity checked are of the same class and
\* have the same key, plural, label and doc, be they one object or two and
\* whatever their lookups; it raises the error of a mismatch otherwise, with
\* the name of the variable, the plural of the entity checked and the plural
\* of the entity of the variable.
C27_MismatchIsByValue ==
    CheckedKnown =>
        IF SameFields(heap[FoundEntity.id], heap[CheckedEntity.id])
        THEN err = "none" /\ ret = None
        ELSE /\ err = "EntityMismatchError"
             /\ ret = Mismatch(CheckedName, heap[CheckedEntity.id].plural,
                               heap[FoundEntity.id].plural)

\* an Entity built with the fields of the first one, and wired while the
\* first one is not, passes the check of the variable of the first one
C27_Witness ==
    /\ CheckedKnown
    /\ CheckedEntity = Ref(3)
    /\ FoundEntity = Ref(1)
    /\ SameFields(heap[1], heap[3])
    /\ LookupOf(heap, 1) = None
    /\ err = "none"

\* C28: build_entity with is_person true builds an Entity, whatever the
\* roles; with is_person false and roles a list, the empty one too, it
\* builds a GroupEntity; with is_person false and roles None or a value that
\* is not iterable it raises ValueError, and no object is built.
C28_BuildEntityByPersonThenRoles ==
    [][call'.op = "build_entity" =>
        LET roles == call'.args[5]
            is_person == call'.args[6].val
        IN  IF is_person \/ roles.tag = "list"
            THEN /\ err' = "none"
                 /\ ret' = Ref(Len(heap) + 1)
                 /\ Len(heap') = Len(heap) + 1
                 /\ SubSeq(heap', 1, Len(heap)) = heap
                 /\ heap'[Len(heap')].tag =
                        IF is_person THEN "Entity" ELSE "GroupEntity"
                 /\ heap'[Len(heap')].key = call'.args[1]
            ELSE /\ err' = "ValueError"
                 /\ ret' = None
                 /\ heap' = heap]_vars

\* a person is built, by the second call, with roles that are no iterable
C28_Witness ==
    /\ calls = 2
    /\ call.op = "build_entity"
    /\ call.args[5] = PyInt(5)
    /\ call.args[6] = PyBool(TRUE)
    /\ Len(heap) = 3
    /\ heap[3].tag = "Entity"

\* the keys that flattened_roles is to hold, of a list of role descriptions:
\* for each one in order, the keys of its subroles when it has any, and its
\* own key when it has none
RECURSIVE FlatKeys(_)
FlatKeys(descriptions) ==
    IF descriptions = <<>> THEN <<>>
    ELSE LET item == Head(descriptions)
         IN  (IF item.subroles = None THEN <<item.key>>
              ELSE IF item.subroles.items = <<>> THEN <<item.key>>
              ELSE item.subroles.items) \o FlatKeys(Tail(descriptions))

\* every key of a list of role descriptions, of the roles and the subroles
AllKeys(descriptions) ==
    {descriptions[i].key : i \in 1..Len(descriptions)}
        \cup UNION {IF descriptions[i].subroles = None THEN {}
                    ELSE {descriptions[i].subroles.items[j] :
                            j \in 1..Len(descriptions[i].subroles.items)} :
                    i \in 1..Len(descriptions)}

\* C29: a GroupEntity has, for the key of every role and of every subrole of
\* the descriptions it was built from, an attribute of the upper-cased name
\* that is the Role of that key, and no other attribute of a Role; its
\* flattened_roles are, for each role in order, its subroles when it has any
\* and the role itself when it has none.
C29_RolesAreAttributes ==
    \A n \in 1..Len(heap) :
        heap[n].tag = "GroupEntity" =>
            LET descriptions == heap[n].roles_description.items
                flattened == heap[n].flattened_roles
            IN  /\ \A key \in AllKeys(descriptions) :
                        /\ getattr(heap[n], upper(key.chars), None) # None
                        /\ getattr(heap[n], upper(key.chars), None).tag = "Role"
                        /\ getattr(heap[n], upper(key.chars), None).key = key
                /\ {e.name : e \in {d \in heap[n].dict : d.value.tag = "Role"}}
                        = {upper(key.chars) : key \in AllKeys(descriptions)}
                /\ [i \in 1..Len(flattened) |-> flattened[i].key]
                        = FlatKeys(descriptions)

\* a GroupEntity is built of a role with two subroles and a role with none
C29_Witness ==
    /\ call.op = "build_entity"
    /\ err = "none"
    /\ heap[ret.id].tag = "GroupEntity"
    /\ heap[ret.id].roles_description = RolesGiven
    /\ Len(heap[ret.id].flattened_roles) = 3
    /\ Cardinality({d \in heap[ret.id].dict : d.value.tag = "Role"}) = 4

====
